---- MODULE Spec2Model ----
(***************************************************************************)
(* Conversation tree cache and dispatcher of chat-index.                   *)
(*                                                                         *)
(* The store (backend/db/db.py), the in-memory MessageTree / SummaryTree   *)
(* and the TreeCache (backend/services/chat_trees.py), the stale draft of  *)
(* the SummaryTree (services/chat_trees.py) and the dispatcher's Handler   *)
(* (services/dispatcher.py) are modelled as operators over records; the    *)
(* actions of the specifications apply them to the state.                  *)
(*                                                                         *)
(* A Python exception is modelled by the field err of an operator's        *)
(* result: "" when the call returned, otherwise the name of the exception. *)
(* State changed before the exception was raised stays changed.            *)
(***************************************************************************)
EXTENDS Integers, Sequences, FiniteSets, TLC

VARIABLES
    db,             \* the store: threads, messages, links, summaries
    cache,          \* TreeCache.cache: OrderedDict, first entry at index 1
    curr_capacity,  \* TreeCache.curr_capacity
    max_capacity,   \* TreeCache.max_capacity
    impl,           \* which chat_trees module the caller imported
    hist,           \* the calls made so far, oldest first (history)
    calls           \* the get calls in flight: position and locals per caller

vars == <<db, cache, curr_capacity, max_capacity, impl, hist, calls>>

\* ------------------------------------------------------------ bounds

\* Largest capacity a TreeCache is constructed with.
MaxCapacity == 2

\* Number of calls on the cache in one behaviour of SpecCache.
MaxCalls == 4

\* Number of dispatcher actions in one behaviour of Spec.
MaxActions == 3

\* Largest number of messages in the store.
MaxMessages == 6

\* Largest summary_batch_size a client sends.
MaxBatch == 2

\* ------------------------------------------------------------ helpers

\* Python's None; store ids start at 1.
None == 0

Max(S) == CHOOSE x \in S : \A y \in S : y <= x

Min(S) == CHOOSE x \in S : \A y \in S : x <= y

EmptyFn == [x \in {} |-> None]

\* d[k] = v
Put(d, k, v) == [x \in (DOMAIN d) \cup {k} |-> IF x = k THEN v ELSE d[x]]

\* del d[k]
Del(d, k) == [x \in (DOMAIN d) \ {k} |-> d[x]]

Last(s) == s[Len(s)]

\* The threads of control that call TreeCache.get at the same time.
Callers == {"a", "b"}

\* No get is in flight and no pair has been constructed.  pc is a caller's
\* position in get, key its thread_id, victim the key its eviction removed,
\* pair the trees it has constructed, object the identity of the pair it
\* holds (pairs are numbered in the order of their construction, made[i] being
\* the thread of pair i), slot the identity of the pair stored under a key of
\* the cache.
NoCalls ==
    [pc |-> [p \in Callers |-> "idle"], key |-> [p \in Callers |-> None],
     victim |-> [p \in Callers |-> None], pair |-> [p \in Callers |-> None],
     object |-> [p \in Callers |-> None], made |-> <<>>, slot |-> EmptyFn]

\* ------------------------------------------------------------ the store

\* Integer primary key of SQLite: one more than the largest id in the table
\* (ids of deleted rows at the top are given out again).
NextId(ids) == IF ids = {} THEN 1 ELSE Max(ids) + 1

EmptyDB(threads) ==
    [threads |-> threads, messages |-> EmptyFn, links |-> <<>>, summaries |-> EmptyFn]

insert_message(d, t) ==
    [d EXCEPT !.messages = Put(d.messages, NextId(DOMAIN d.messages), t)]

insert_link(d, t, prev, next) ==
    [d EXCEPT !.links = Append(d.links,
        [thread_id |-> t, previous_message_id |-> prev, next_message_id |-> next])]

insert_summary(d, start, end) ==
    [d EXCEPT !.summaries = Put(d.summaries, NextId(DOMAIN d.summaries),
        [start_message_id |-> start, end_message_id |-> end])]

\* The ids of the thread's messages; the rows come in id order.
fetch_messages(d, t) == {m \in DOMAIN d.messages : d.messages[m] = t}

\* The query filters on Thread.id and not on Link.thread_id: it joins every
\* link with the thread's row, so it returns all links of the table when the
\* thread exists and none otherwise.
fetch_links(d, t) == IF t \in d.threads THEN d.links ELSE <<>>

\* Summaries joined to the thread through their start message.
fetch_summaries(d, t) ==
    {s \in DOMAIN d.summaries :
        /\ d.summaries[s].start_message_id \in DOMAIN d.messages
        /\ d.messages[d.summaries[s].start_message_id] = t}

\* ------------------------------------------------------------ MessageTree

\* The parent a node ends with: the previous id of the last link to it.
LinkParent(ls, m) ==
    LET idx == {i \in 1..Len(ls) : ls[i].next_message_id = m}
    IN  IF idx = {} THEN None ELSE ls[Max(idx)].previous_message_id

\* The child ids appended to a node, in link order.
LinkChildren(ls, p) ==
    LET sel == SelectSeq(ls, LAMBDA l : l.previous_message_id = p)
    IN  [i \in 1..Len(sel) |-> sel[i].next_message_id]

NoMessageTree == [err |-> "", root_message_id |-> None, index |-> EmptyFn]

\* MessageTree._load_message_tree of backend/services/chat_trees.py.
LoadMessageTree(d, t) ==
    LET ids   == fetch_messages(d, t)
        ls    == fetch_links(d, t)
        index == [m \in ids |-> [parent_id |-> LinkParent(ls, m),
                                 child_ids |-> LinkChildren(ls, m)]]
        roots == {m \in ids : index[m].parent_id = None}
    IN  IF \E i \in 1..Len(ls) : ls[i].previous_message_id \notin ids
                                    \/ ls[i].next_message_id \notin ids
        THEN [NoMessageTree EXCEPT !.err = "TypeError"]
        ELSE IF roots = {}
        THEN [NoMessageTree EXCEPT !.err = "AssertionError"]
        ELSE [err |-> "", root_message_id |-> Min(roots), index |-> index]

\* MessageTree._load_message_tree of the draft services/chat_trees.py: no root
\* is looked for, an empty thread loads as an empty index.
DraftLoadMessageTree(d, t) ==
    LET ids   == fetch_messages(d, t)
        ls    == fetch_links(d, t)
        index == [m \in ids |-> [parent_id |-> LinkParent(ls, m),
                                 child_ids |-> LinkChildren(ls, m)]]
    IN  IF \E i \in 1..Len(ls) : ls[i].previous_message_id \notin ids
                                    \/ ls[i].next_message_id \notin ids
        THEN [NoMessageTree EXCEPT !.err = "TypeError"]
        ELSE [err |-> "", root_message_id |-> None, index |-> index]

\* ------------------------------------------------------------ SummaryTree

NoSummaryTree ==
    [err |-> "", root_summary_id |-> None, start_message_lookup |-> EmptyFn,
     end_message_lookup |-> EmptyFn, summary_id_lookup |-> EmptyFn]

\* The lookup the first loop of _load_index builds: a later summary (larger
\* id) overwrites an earlier one with the same message.
StartLookupOf(d, sums) ==
    [m \in {d.summaries[s].start_message_id : s \in sums} |->
        Max({s \in sums : d.summaries[s].start_message_id = m})]

EndLookupOf(d, sums) ==
    [m \in {d.summaries[s].end_message_id : s \in sums} |->
        Max({s \in sums : d.summaries[s].end_message_id = m})]

\* The summaries starting at the children of message e, in child order.
ChildSummaries(mt, start_lookup, e) ==
    LET sel == SelectSeq(mt.index[e].child_ids, LAMBDA c : c \in DOMAIN start_lookup)
    IN  [i \in 1..Len(sel) |-> start_lookup[sel[i]]]

\* SummaryTree._load_index of backend/services/chat_trees.py.
LoadIndex(d, t, mt) ==
    LET sums == fetch_summaries(d, t)
        sl   == StartLookupOf(d, sums)
        el   == EndLookupOf(d, sums)
        par(s) == mt.index[d.summaries[s].start_message_id].parent_id
    IN  IF \E s \in sums :
               \/ par(s) # None /\ par(s) \notin DOMAIN el
               \/ d.summaries[s].end_message_id \notin DOMAIN mt.index
        THEN [NoSummaryTree EXCEPT !.err = "KeyError"]
        ELSE [err |-> "",
              root_summary_id |->
                  IF mt.root_message_id \in DOMAIN sl THEN sl[mt.root_message_id] ELSE None,
              start_message_lookup |-> sl,
              end_message_lookup |-> el,
              summary_id_lookup |-> [s \in sums |->
                  [id |-> s,
                   start_message_id |-> d.summaries[s].start_message_id,
                   end_message_id |-> d.summaries[s].end_message_id,
                   parent_id |-> IF par(s) # None THEN el[par(s)] ELSE None,
                   child_ids |-> ChildSummaries(mt, sl, d.summaries[s].end_message_id)]]]

\* SummaryTree._load_index of the draft services/chat_trees.py: a child of a
\* summary's end that starts no summary is looked up all the same, and no root
\* summary is recorded.
DraftLoadIndex(d, t, mt) ==
    LET sums == fetch_summaries(d, t)
        sl   == StartLookupOf(d, sums)
        el   == EndLookupOf(d, sums)
        par(s) == mt.index[d.summaries[s].start_message_id].parent_id
        kids(s) == mt.index[d.summaries[s].end_message_id].child_ids
    IN  IF \E s \in sums :
               \/ par(s) # None /\ par(s) \notin DOMAIN el
               \/ d.summaries[s].end_message_id \notin DOMAIN mt.index
               \/ \E i \in 1..Len(kids(s)) : kids(s)[i] \notin DOMAIN sl
        THEN [NoSummaryTree EXCEPT !.err = "KeyError"]
        ELSE [err |-> "",
              root_summary_id |-> None,
              start_message_lookup |-> sl,
              end_message_lookup |-> el,
              summary_id_lookup |-> [s \in sums |->
                  [id |-> s,
                   start_message_id |-> d.summaries[s].start_message_id,
                   end_message_id |-> d.summaries[s].end_message_id,
                   parent_id |-> IF par(s) # None THEN el[par(s)] ELSE None,
                   child_ids |-> ChildSummaries(mt, sl, d.summaries[s].end_message_id)]]]

\* ------------------------------------------------------------ TreeCache

Backend == "backend/services/chat_trees.py"

Draft == "services/chat_trees.py"

CacheKeys(c) == {c[i].key : i \in 1..Len(c)}

\* self.cache[thread_id]
CacheEntry(c, t) == c[CHOOSE i \in 1..Len(c) : c[i].key = t]

\* An eviction that removes nothing.
PopItemKeepsAll(c) == c

\* An eviction at the front of the dict.
PopItemFirst(c) == Tail(c)

\* self.cache.popitem(last=True): the entry at the end of the dict goes.
PopItem(c) == SubSeq(c, 1, Len(c) - 1)

\* self.cache[thread_id] = pair, then move_to_end(thread_id, last=False).
InsertFront(c, e) == <<e>> \o c

\* MessageTree(thread_id, db) of the module `im`.
MessageTreeOf(d, t, im) ==
    IF im = Draft THEN DraftLoadMessageTree(d, t) ELSE LoadMessageTree(d, t)

\* SummaryTree(message_tree, db) of the module `im`; never constructed when the
\* message tree raised.
SummaryTreeOf(d, t, mt, im) ==
    IF mt.err # "" THEN NoSummaryTree
    ELSE IF im = Draft THEN DraftLoadIndex(d, t, mt)
    ELSE LoadIndex(d, t, mt)

\* The pair (message_tree, summary_tree), or the exception either raised.
TreePair(mt, st) ==
    [err |-> IF mt.err # "" THEN mt.err ELSE st.err,
     mt  |-> [root_message_id |-> mt.root_message_id, index |-> mt.index],
     st  |-> [root_summary_id |-> st.root_summary_id,
              start_message_lookup |-> st.start_message_lookup,
              end_message_lookup |-> st.end_message_lookup,
              summary_id_lookup |-> st.summary_id_lookup]]

\* The summary tree is built on the message tree mt.
BuildOn(d, t, im, mt) == TreePair(mt, SummaryTreeOf(d, t, mt, im))

\* The two constructor calls of TreeCache.get.
BuildPair(d, t, im) == BuildOn(d, t, im, MessageTreeOf(d, t, im))

\* The eviction of TreeCache.get: when curr_capacity has reached max_capacity
\* the entry at the end goes and the counter is decremented.
Evict(c, cc, mc) ==
    IF mc = cc
    THEN [cache |-> PopItem(c), curr_capacity |-> cc - 1, victim |-> Last(c).key]
    ELSE [cache |-> c, curr_capacity |-> cc, victim |-> None]

\* The rest of a miss: the pair is built after the eviction and inserted at the
\* front; when a constructor raised, the eviction has happened all the same.
Insert(ev, t, pair) ==
    IF pair.err # ""
    THEN [err |-> pair.err, cache |-> ev.cache,
          curr_capacity |-> ev.curr_capacity, victim |-> ev.victim]
    ELSE [err |-> "",
          cache |-> InsertFront(ev.cache, [key |-> t, mt |-> pair.mt, st |-> pair.st]),
          curr_capacity |-> ev.curr_capacity + 1,
          victim |-> ev.victim]

\* TreeCache.get.  A hit returns the entry and leaves the order as it is.  A
\* miss evicts first (KeyError on an empty dict), then builds, then inserts.
TreeCacheGet(c, cc, mc, d, t, im) ==
    IF t \in CacheKeys(c)
    THEN [err |-> "", cache |-> c, curr_capacity |-> cc, victim |-> None]
    ELSE IF mc = cc /\ c = <<>>
    THEN [err |-> "KeyError", cache |-> c, curr_capacity |-> cc, victim |-> None]
    ELSE Insert(Evict(c, cc, mc), t, BuildPair(d, t, im))

\* TreeCache.delete: the entry goes, curr_capacity stays.
TreeCacheDelete(c, t) == SelectSeq(c, LAMBDA e : e.key # t)

\* ------------------------------------------------------------ store deletes

\* DB.delete_summary: session.delete(None) raises when the row is absent.
delete_summary(d, id) ==
    IF id \notin DOMAIN d.summaries
    THEN [err |-> "UnmappedInstanceError", db |-> d]
    ELSE [err |-> "", db |-> [d EXCEPT !.summaries = Del(d.summaries, id)]]

\* DB.delete_link.  Python's `and` between the two column comparisons yields
\* the first one, so the filter is previous_message_id = prev alone and the
\* first such row is deleted, whatever its next_message_id.
delete_link(d, prev, next) ==
    LET rows == {i \in 1..Len(d.links) : d.links[i].previous_message_id = prev}
    IN  IF rows = {}
        THEN [err |-> "UnmappedInstanceError", db |-> d]
        ELSE [err |-> "",
              db  |-> [d EXCEPT !.links =
                          SubSeq(d.links, 1, Min(rows) - 1)
                          \o SubSeq(d.links, Min(rows) + 1, Len(d.links))]]

\* DB.delete_message.  The relationships of Message to Link and Summary carry
\* no delete cascade: deleting a message still referred to by a link or a
\* summary sets a NOT NULL column to NULL and the transaction fails.
delete_message(d, id) ==
    IF id \notin DOMAIN d.messages
    THEN [err |-> "UnmappedInstanceError", db |-> d]
    ELSE IF \/ \E i \in 1..Len(d.links) :
                  d.links[i].previous_message_id = id \/ d.links[i].next_message_id = id
            \/ \E s \in DOMAIN d.summaries :
                  d.summaries[s].start_message_id = id \/ d.summaries[s].end_message_id = id
    THEN [err |-> "IntegrityError", db |-> d]
    ELSE [err |-> "", db |-> [d EXCEPT !.messages = Del(d.messages, id)]]

\* ------------------------------------------------------------ tree mutation

\* A node the draft's add_message installs has no "child_ids" key.
NoChildIds == <<None>>

\* A new child put in front of the list.
PrependChild(child_ids, id) == <<id>> \o child_ids

\* child_ids.append(message_id)
AppendChild(child_ids, id) == Append(child_ids, id)

\* MessageTree.add_message of backend/services/chat_trees.py: the node is
\* installed first; with a parent, the id is then appended to the parent's
\* child_ids (KeyError when the parent is not in the index).
AddMessage(mt, id, prev) ==
    LET ix == Put(mt.index, id, [parent_id |-> prev, child_ids |-> <<>>])
    IN  IF prev = None
        THEN [err |-> "", mt |-> [mt EXCEPT !.index = ix]]
        ELSE IF prev \notin DOMAIN ix
        THEN [err |-> "KeyError", mt |-> [mt EXCEPT !.index = ix]]
        ELSE [err |-> "",
              mt  |-> [mt EXCEPT !.index =
                          [ix EXCEPT ![prev].child_ids = AppendChild(@, id)]]]

\* MessageTree.add_message of the draft: the node has no child_ids, and the
\* parent is indexed whether or not it is None.
DraftAddMessage(mt, id, prev) ==
    LET ix == Put(mt.index, id, [parent_id |-> prev, child_ids |-> NoChildIds])
    IN  IF prev \notin DOMAIN ix \/ ix[prev].child_ids = NoChildIds
        THEN [err |-> "KeyError", mt |-> [mt EXCEPT !.index = ix]]
        ELSE [err |-> "",
              mt  |-> [mt EXCEPT !.index =
                          [ix EXCEPT ![prev].child_ids = AppendChild(@, id)]]]

SummaryNode(id, start, end, parent, children) ==
    [id |-> id, start_message_id |-> start, end_message_id |-> end,
     parent_id |-> parent, child_ids |-> children]

\* SummaryTree.add_summary of backend/services/chat_trees.py.  Every lookup
\* that can raise comes before the first assignment.
AddSummary(mt, st, sid, start, end) ==
    IF start \notin DOMAIN mt.index
    THEN [err |-> "KeyError", st |-> st]
    ELSE LET p == mt.index[start].parent_id
         IN  IF p = None
             THEN [err |-> "",
                   st  |-> [st EXCEPT
                       !.summary_id_lookup = Put(@, sid, SummaryNode(sid, start, end, None, <<>>)),
                       !.start_message_lookup = Put(@, start, sid),
                       !.end_message_lookup = Put(@, end, sid)]]
             ELSE IF p \notin DOMAIN st.end_message_lookup
             THEN [err |-> "KeyError", st |-> st]
             ELSE IF st.end_message_lookup[p] \notin DOMAIN st.summary_id_lookup
             THEN [err |-> "KeyError", st |-> st]
             ELSE LET ps == st.end_message_lookup[p]
                      il == [st.summary_id_lookup EXCEPT ![ps].child_ids = Append(@, sid)]
                  IN  [err |-> "",
                       st  |-> [st EXCEPT
                           !.summary_id_lookup = Put(il, sid, SummaryNode(sid, start, end, ps, <<>>)),
                           !.start_message_lookup = Put(@, start, sid),
                           !.end_message_lookup = Put(@, end, sid)]]

\* The key of summary_id_lookup[id] in the draft: Python's builtin id.
BuiltinId == -1

\* SummaryTree.add_summary of the draft services/chat_trees.py: the parent's
\* child list is looked up under the parent MESSAGE id, and the node is stored
\* under the builtin id.
DraftAddSummary(mt, st, sid, start, end) ==
    IF start \notin DOMAIN mt.index
    THEN [err |-> "KeyError", st |-> st]
    ELSE LET p == mt.index[start].parent_id
         IN  IF p # None /\ p \notin DOMAIN st.end_message_lookup
             THEN [err |-> "KeyError", st |-> st]
             ELSE IF p \notin DOMAIN st.summary_id_lookup
             THEN [err |-> "KeyError", st |-> st]
             ELSE LET il == [st.summary_id_lookup EXCEPT ![p].child_ids = Append(@, sid)]
                  IN  [err |-> "",
                       st  |-> [st EXCEPT
                           !.summary_id_lookup = Put(il, BuiltinId,
                               SummaryNode(sid, start, end, st.end_message_lookup[p], <<>>)),
                           !.start_message_lookup = Put(@, start, sid),
                           !.end_message_lookup = Put(@, end, sid)]]

\* The lookups after split_summary has removed the old node and its two keys.
\* The three deletions come one after the other, each of them may raise.
SplitRemoved(st, sid) ==
    LET old == st.summary_id_lookup[sid]
        st1 == [st EXCEPT !.summary_id_lookup = Del(@, sid)]
        st2 == [st1 EXCEPT !.start_message_lookup = Del(@, old.start_message_id)]
        st3 == [st2 EXCEPT !.end_message_lookup = Del(@, old.end_message_id)]
    IN  IF old.start_message_id \notin DOMAIN st.start_message_lookup
        THEN [err |-> "KeyError", st |-> st1]
        ELSE IF old.end_message_id \notin DOMAIN st.end_message_lookup
        THEN [err |-> "KeyError", st |-> st2]
        ELSE [err |-> "", st |-> st3]

\* The four lookup entries split_summary writes for the two new nodes.
SplitLookups(st, pre, post) ==
    [st EXCEPT
        !.start_message_lookup =
            Put(Put(@, pre.start_message_id, pre.id), post.start_message_id, post.id),
        !.end_message_lookup =
            Put(Put(@, pre.end_message_id, pre.id), post.end_message_id, post.id)]

\* The same four entries in the draft: each maps the message id to itself.
DraftSplitLookups(st, pre, post) ==
    [st EXCEPT
        !.start_message_lookup =
            Put(Put(@, pre.start_message_id, pre.start_message_id),
                post.start_message_id, post.start_message_id),
        !.end_message_lookup =
            Put(Put(@, pre.end_message_id, pre.end_message_id),
                post.end_message_id, post.end_message_id)]

\* The two nodes that replace the split summary.
SplitNodes(mt, old, pre_id, b, post_id) ==
    [pre  |-> SummaryNode(pre_id, old.start_message_id, b, old.parent_id, <<post_id>>),
     post |-> SummaryNode(post_id, mt.index[b].child_ids[1], old.end_message_id,
                          pre_id, old.child_ids)]

\* SummaryTree.split_summary, of the backend module or, with im = Draft, of
\* the draft: the two differ in the lookup entries they write.
SplitSummaryOf(im, mt, st, sid, pre_id, b, post_id) ==
    IF sid \notin DOMAIN st.summary_id_lookup
    THEN [err |-> "KeyError", st |-> st]
    ELSE LET old == st.summary_id_lookup[sid]
             rem == SplitRemoved(st, sid)
         IN  IF rem.err # ""
             THEN rem
             ELSE IF b \notin DOMAIN mt.index
             THEN [err |-> "KeyError", st |-> rem.st]
             ELSE IF mt.index[b].child_ids = NoChildIds
             THEN [err |-> "KeyError", st |-> rem.st]
             ELSE IF mt.index[b].child_ids = <<>>
             THEN [err |-> "IndexError", st |-> rem.st]
             ELSE LET n  == SplitNodes(mt, old, pre_id, b, post_id)
                      il == Put(Put(rem.st.summary_id_lookup, pre_id, n.pre), post_id, n.post)
                      s1 == [rem.st EXCEPT !.summary_id_lookup = il]
                  IN  [err |-> "",
                       st  |-> IF im = Draft THEN DraftSplitLookups(s1, n.pre, n.post)
                               ELSE SplitLookups(s1, n.pre, n.post)]

\* SummaryTree.split_summary of backend/services/chat_trees.py.
SplitSummary(mt, st, sid, pre_id, b, post_id) ==
    SplitSummaryOf(Backend, mt, st, sid, pre_id, b, post_id)

\* SummaryTree.split_summary of the draft services/chat_trees.py.
DraftSplitSummary(mt, st, sid, pre_id, b, post_id) ==
    SplitSummaryOf(Draft, mt, st, sid, pre_id, b, post_id)

RECURSIVE CountFrom(_, _, _)
\* The loop of count_unsummarized_messages from message m on.
CountFrom(mt, st, m) ==
    IF m = None \/ m \in DOMAIN st.end_message_lookup \/ m \notin DOMAIN mt.index
    THEN 0
    ELSE 1 + CountFrom(mt, st, mt.index[m].parent_id)

RECURSIVE CountRaises(_, _, _)
\* The loop reads message_tree.index[message_id]: KeyError when the walk
\* comes to an id the index does not hold.
CountRaises(mt, st, m) ==
    IF m = None \/ m \in DOMAIN st.end_message_lookup
    THEN FALSE
    ELSE IF m \notin DOMAIN mt.index
    THEN TRUE
    ELSE CountRaises(mt, st, mt.index[m].parent_id)

RECURSIVE CountToRoot(_, _, _)
\* A count that walks on through the ends of summaries, up to the root.
CountToRoot(mt, st, m) ==
    IF m = None \/ m \notin DOMAIN mt.index
    THEN 0
    ELSE 1 + CountToRoot(mt, st, mt.index[m].parent_id)

\* SummaryTree.count_unsummarized_messages.
count_unsummarized_messages(mt, st, m) == CountFrom(mt, st, m)

\* ------------------------------------------------------------ Handler
\* The Handler of services/dispatcher.py passes None as prev_message_id and
\* constructs DB(uri): it runs against the backend modules.

\* The state a handler works on and leaves: the store, the cache and its
\* counter, and the exception it ended with ("" when it returned).
St(d, c, cc, e) == [db |-> d, cache |-> c, curr_capacity |-> cc, err |-> e]

\* The cache with the trees of thread t replaced (the pair is mutated in place).
WithTrees(c, t, mt, st) ==
    [i \in 1..Len(c) |-> IF c[i].key = t THEN [key |-> t, mt |-> mt, st |-> st] ELSE c[i]]

\* db.insert_message and, with a parent, db.insert_link to the new message.
StoreMessage(d, t, prev) ==
    IF prev # None
    THEN insert_link(insert_message(d, t), t, prev, NextId(DOMAIN d.messages))
    ELSE insert_message(d, t)

\* Handler.add_message after the store calls, the cache having answered g: the
\* message m is added to the tree that came back.
AddMessageOn(d, g, t, m, prev) ==
    IF g.err # ""
    THEN St(d, g.cache, g.curr_capacity, g.err)
    ELSE LET e == CacheEntry(g.cache, t)
             r == AddMessage(e.mt, m, prev)
         IN  St(d, WithTrees(g.cache, t, r.mt, e.st), g.curr_capacity, r.err)

\* Handler.add_message: the message and its link are inserted into the store,
\* then the trees are fetched from the cache, then the message is added to the
\* tree that came back.
HandlerAddMessage(s, mc, t, prev) ==
    AddMessageOn(StoreMessage(s.db, t, prev),
                 TreeCacheGet(s.cache, s.curr_capacity, mc,
                              StoreMessage(s.db, t, prev), t, Backend),
                 t, NextId(DOMAIN s.db.messages), prev)

RECURSIVE TopOfWalk(_, _, _)
\* The parent walk of _add_summary and of split_summary from message m, which
\* is no end of a summary: the walk goes on while the current id is None or no
\* end of a summary, and reads index[current id] in its body.
TopOfWalk(mt, st, m) ==
    IF m = None \/ m \notin DOMAIN mt.index
    THEN [err |-> "KeyError", start |-> None]
    ELSE LET p == mt.index[m].parent_id
         IN  IF p # None /\ p \in DOMAIN st.end_message_lookup
             THEN [err |-> "", start |-> m]
             ELSE TopOfWalk(mt, st, p)

\* Handler._add_summary, the cache having answered g.
AddSummaryOn(s, g, t, prev, shift) ==
    IF g.err # ""
    THEN St(s.db, g.cache, g.curr_capacity, g.err)
    ELSE LET e == CacheEntry(g.cache, t)
             w == TopOfWalk(e.mt, e.st, prev)
             sid == NextId(DOMAIN s.db.summaries)
             r == AddSummary(e.mt, e.st, sid, w.start, prev)
         IN  IF prev \notin DOMAIN e.mt.index
             THEN St(s.db, g.cache, g.curr_capacity, "KeyError")
             ELSE IF ~shift \/ prev \in DOMAIN e.st.end_message_lookup
             THEN St(s.db, g.cache, g.curr_capacity, "")
             ELSE IF w.err # ""
             THEN St(s.db, g.cache, g.curr_capacity, w.err)
             ELSE St(insert_summary(s.db, w.start, prev),
                     WithTrees(g.cache, t, e.mt, r.st), g.curr_capacity, r.err)

\* Handler._add_summary.
HandlerAddSummary(s, mc, t, prev, shift) ==
    AddSummaryOn(s, TreeCacheGet(s.cache, s.curr_capacity, mc, s.db, t, Backend),
                 t, prev, shift)

RECURSIVE PostWalk(_, _, _, _)
\* The child walk of split_summary from message m with post_end = last: it
\* goes on along child_ids[0] while the current id starts no summary.
PostWalk(mt, st, m, last) ==
    IF m \in DOMAIN st.start_message_lookup
    THEN [err |-> "", end |-> last]
    ELSE IF m \notin DOMAIN mt.index
    THEN [err |-> "KeyError", end |-> last]
    ELSE IF mt.index[m].child_ids = <<>>
    THEN [err |-> "IndexError", end |-> last]
    ELSE PostWalk(mt, st, mt.index[m].child_ids[1], m)

\* Handler.split_summary, the cache having answered g.
SplitSummaryOn(s, g, t, b) ==
    IF g.err # ""
    THEN St(s.db, g.cache, g.curr_capacity, g.err)
    ELSE LET e    == CacheEntry(g.cache, t)
             fail(x) == St(s.db, g.cache, g.curr_capacity, x)
             pre  == IF b \in DOMAIN e.st.end_message_lookup
                     THEN [err |-> "", start |-> b]
                     ELSE TopOfWalk(e.mt, e.st, b)
             sid  == e.st.start_message_lookup[pre.start]
             c    == e.mt.index[b].child_ids[1]
             post == PostWalk(e.mt, e.st, c, c)
             del  == delete_summary(s.db, sid)
             preId  == NextId(DOMAIN del.db.summaries)
             d1   == insert_summary(del.db, pre.start, b)
             postId == NextId(DOMAIN d1.summaries)
             d2   == insert_summary(d1, c, post.end)
             r    == SplitSummary(e.mt, e.st, sid, preId, b, postId)
         IN  IF pre.err # "" THEN fail(pre.err)
             ELSE IF pre.start \notin DOMAIN e.st.start_message_lookup
             THEN fail("KeyError")
             ELSE IF b \notin DOMAIN e.mt.index THEN fail("KeyError")
             ELSE IF e.mt.index[b].child_ids = <<>> THEN fail("IndexError")
             ELSE IF post.err # "" THEN fail(post.err)
             ELSE IF del.err # "" THEN fail(del.err)
             ELSE St(d2, WithTrees(g.cache, t, e.mt, r.st), g.curr_capacity, r.err)

\* Handler.split_summary.
HandlerSplitSummary(s, mc, t, b) ==
    SplitSummaryOn(s, TreeCacheGet(s.cache, s.curr_capacity, mc, s.db, t, Backend), t, b)

\* ------------------------------------------------------------ dispatcher
\* The action layer on top of the Handler (the add_message gate on
\* trigger_summarization and summary_batch_size, branch_off, delete_branch) is
\* not among the sources; it follows the design document, section 4.4.

\* The summarization step of add_message on the state s1 that
\* Handler.add_message left: skipped unless triggered, with a parent, and with
\* at least `batch` unsummarized messages up to the parent.
SummarizeOn(s1, mc, t, prev, trigger, batch, shift) ==
    IF s1.err # "" \/ ~trigger \/ prev = None
    THEN s1
    ELSE IF CountRaises(CacheEntry(s1.cache, t).mt, CacheEntry(s1.cache, t).st, prev)
    THEN St(s1.db, s1.cache, s1.curr_capacity, "KeyError")
    ELSE IF count_unsummarized_messages(CacheEntry(s1.cache, t).mt,
                                        CacheEntry(s1.cache, t).st, prev) < batch
    THEN s1
    ELSE HandlerAddSummary(s1, mc, t, prev, shift)

\* add_message(content, thread_id, prev_message_id, trigger_summarization,
\* summary_batch_size).
DispatchAddMessage(s, mc, t, prev, trigger, batch, shift) ==
    SummarizeOn(HandlerAddMessage(s, mc, t, prev), mc, t, prev, trigger, batch, shift)

\* branch_off, the cache having answered g: nothing to do when the message
\* ends a summary (Handler._detect_summary_split), else the split.
BranchOffOn(s, g, mc, t, b) ==
    IF g.err # ""
    THEN St(s.db, g.cache, g.curr_capacity, g.err)
    ELSE IF b \in DOMAIN CacheEntry(g.cache, t).st.end_message_lookup
    THEN St(s.db, g.cache, g.curr_capacity, "")
    ELSE HandlerSplitSummary(St(s.db, g.cache, g.curr_capacity, ""), mc, t, b)

\* branch_off(thread_id, branch_off_message_id).
DispatchBranchOff(s, mc, t, b) ==
    BranchOffOn(s, TreeCacheGet(s.cache, s.curr_capacity, mc, s.db, t, Backend), mc, t, b)

RECURSIVE Preorder(_, _)
\* The nodes of the trees under the ids of `stack`, parents first; ix maps a
\* node to a record with child_ids.
Preorder(ix, stack) ==
    IF stack = <<>>
    THEN <<>>
    ELSE LET n    == Head(stack)
             kids == IF n \in DOMAIN ix THEN ix[n].child_ids ELSE <<>>
         IN  <<n>> \o Preorder(ix, kids \o Tail(stack))

LinkOp(a, b) == [kind |-> "link", a |-> a, b |-> b]

RECURSIVE BranchOps(_, _)
\* For each node of `nodes` in turn: delete its outgoing links, then the message.
BranchOps(ix, nodes) ==
    IF nodes = <<>>
    THEN <<>>
    ELSE LET n == Head(nodes)
         IN  [i \in 1..Len(ix[n].child_ids) |-> LinkOp(n, ix[n].child_ids[i])]
             \o <<[kind |-> "message", a |-> n, b |-> None]>>
             \o BranchOps(ix, Tail(nodes))

RECURSIVE ApplyOps(_, _)
\* The store after the deletions of `ops`, up to the first that fails.
ApplyOps(d, ops) ==
    IF ops = <<>>
    THEN [err |-> "", db |-> d]
    ELSE LET o == Head(ops)
             r == IF o.kind = "link" THEN delete_link(d, o.a, o.b)
                  ELSE IF o.kind = "message" THEN delete_message(d, o.a)
                  ELSE delete_summary(d, o.a)
         IN  IF r.err # "" THEN r ELSE ApplyOps(r.db, Tail(ops))

\* The deletions of delete_branch on the cached trees e: the link that attaches
\* the branch, the links and messages of the branch, and the summaries under
\* the one that starts at the branch.
DeleteOps(e, b) ==
    LET ix   == e.mt.index
        sums == IF b \in DOMAIN e.st.start_message_lookup
                THEN Preorder(e.st.summary_id_lookup, <<e.st.start_message_lookup[b]>>)
                ELSE <<>>
    IN  (IF ix[b].parent_id # None THEN <<LinkOp(ix[b].parent_id, b)>> ELSE <<>>)
        \o BranchOps(ix, Preorder(ix, <<b>>))
        \o [i \in 1..Len(sums) |-> [kind |-> "summary", a |-> sums[i], b |-> None]]

\* delete_branch, the cache having answered g: the thread is invalidated also
\* when a store call failed.
DeleteBranchOn(s, g, t, b) ==
    IF g.err # ""
    THEN St(s.db, g.cache, g.curr_capacity, g.err)
    ELSE IF b \notin DOMAIN CacheEntry(g.cache, t).mt.index
    THEN St(s.db, g.cache, g.curr_capacity, "KeyError")
    ELSE LET r == ApplyOps(s.db, DeleteOps(CacheEntry(g.cache, t), b))
         IN  St(r.db, TreeCacheDelete(g.cache, t), g.curr_capacity, r.err)

\* delete_branch(thread_id, branch_start_message_id).
DispatchDeleteBranch(s, mc, t, b) ==
    DeleteBranchOn(s, TreeCacheGet(s.cache, s.curr_capacity, mc, s.db, t, Backend), t, b)

\* ------------------------------------------------------------ SpecCache
\* A TreeCache of capacity 1..MaxCapacity over a store with one thread more
\* than the largest capacity; its callers get, invalidate and delete branches.

Call(op, key, err, victim) == [op |-> op, key |-> key, err |-> err, victim |-> victim]

CacheThreads == 1..(MaxCapacity + 1)

\* Every thread holds one message: message m belongs to thread m.
CacheSeedSingles ==
    [EmptyDB(CacheThreads) EXCEPT !.messages = [m \in CacheThreads |-> m]]

\* Thread 1 holds a second message, linked to its first.
CacheSeedChain ==
    insert_link(insert_message(CacheSeedSingles, 1), 1, 1, MaxCapacity + 2)

InitCache ==
    /\ db \in {CacheSeedSingles, CacheSeedChain}
    /\ cache = <<>>
    /\ curr_capacity = 0
    /\ max_capacity \in 1..MaxCapacity
    /\ impl = Backend
    /\ hist = <<>>
    /\ calls = NoCalls

\* tree_cache.get(t)
Get(t) ==
    /\ Len(hist) < MaxCalls
    /\ \E r \in {TreeCacheGet(cache, curr_capacity, max_capacity, db, t, impl)} :
           /\ cache' = r.cache
           /\ curr_capacity' = r.curr_capacity
           /\ hist' = Append(hist, Call("get", t, r.err, r.victim))
    /\ UNCHANGED <<db, max_capacity, impl, calls>>

\* tree_cache.delete(t)
Invalidate(t) ==
    /\ Len(hist) < MaxCalls
    /\ cache' = TreeCacheDelete(cache, t)
    /\ hist' = Append(hist, Call("invalidate", t, "", None))
    /\ UNCHANGED <<db, curr_capacity, max_capacity, impl, calls>>

\* dispatch("delete_branch", {thread_id: t, branch_start_message_id: b})
DeleteBranch(t, b) ==
    /\ Len(hist) < MaxCalls
    /\ \E r \in {DispatchDeleteBranch(St(db, cache, curr_capacity, ""), max_capacity, t, b)} :
           /\ db' = r.db
           /\ cache' = r.cache
           /\ curr_capacity' = r.curr_capacity
           /\ hist' = Append(hist, Call("delete_branch", t, r.err, None))
    /\ UNCHANGED <<max_capacity, impl, calls>>

NextCache ==
    \E t \in CacheThreads :
        \/ Get(t)
        \/ Invalidate(t)
        \/ \E b \in fetch_messages(db, t) : DeleteBranch(t, b)

SpecCache == InitCache /\ [][NextCache]_vars

\* ------------------------------------------------------------ cache claims

\* The calls of h that are gets which returned.
GetsOf(h) == {i \in 1..Len(h) : h[i].op = "get" /\ h[i].err = ""}

\* The index in h of the last get of key k that returned (0: never).
LastGet(h, k) == Max({i \in GetsOf(h) : h[i].key = k} \cup {0})

\* The resident key whose last get is the oldest.
LeastRecentlyUsed(c, h) ==
    CHOOSE k \in CacheKeys(c) : \A j \in CacheKeys(c) : LastGet(h, k) <= LastGet(h, j)

\* C6 (I5): whatever gets, invalidations and branch deletions were made on a
\* cache of capacity N >= 1, it never holds more than N entries.
I5_CacheBound == Len(cache) <= max_capacity

\* C6, witness: the cache is full after a get that evicted an entry.
I5_Witness ==
    /\ Len(cache) = max_capacity
    /\ \E i \in 1..Len(hist) : hist[i].op = "get" /\ hist[i].victim # None /\ hist[i].err = ""

\* C7: a get that hits promotes the key, so the entry a later miss evicts is
\* the resident key whose last get is the oldest.
C7_VictimIsLeastRecentlyUsed ==
    [][(/\ Len(hist') = Len(hist) + 1
        /\ Last(hist').op = "get"
        /\ Last(hist').victim # None)
       => Last(hist').victim = LeastRecentlyUsed(cache, hist)]_vars

\* Only gets were called, each returned, and no two were for the same thread.
DistinctGets(h) ==
    /\ GetsOf(h) = 1..Len(h)
    /\ \A i, j \in 1..Len(h) : h[i].key = h[j].key => i = j

NextAfterInvalidate(h) ==
    \E j \in 1..(Len(h) - 1) :
        /\ h[j].key = Last(h).key
        /\ h[j].op \in {"invalidate", "delete_branch"}
        /\ \A k \in (j + 1)..(Len(h) - 1) : h[k].key # Last(h).key

\* C9: the next get of a thread after its invalidation returns, and the pair
\* it returns is built from the store as it is now (said here of the threads
\* whose trees the store can build).
C9_GetAfterInvalidateIsFresh ==
    (/\ hist # <<>>
     /\ Last(hist).op = "get"
     /\ NextAfterInvalidate(hist)
     /\ BuildPair(db, Last(hist).key, impl).err = "")
    => /\ Last(hist).err = ""
       /\ Last(hist).key \in CacheKeys(cache)
       /\ DOMAIN CacheEntry(cache, Last(hist).key).mt.index = fetch_messages(db, Last(hist).key)

\* ------------------------------------------------------------ Spec
\* One thread, its clients sending add_message, branch_off and delete_branch
\* to the dispatcher.  The store starts as one of four conversations written
\* through the DB API.

Thread == 1

\* The store with the chain 1 -> 2 -> ... -> n in thread Thread.
RECURSIVE ChainDB(_)
ChainDB(n) ==
    IF n = 0 THEN EmptyDB({Thread})
    ELSE IF n = 1 THEN insert_message(ChainDB(0), Thread)
    ELSE insert_link(insert_message(ChainDB(n - 1), Thread), Thread, n - 1, n)

\* A thread without messages.
SeedEmpty == ChainDB(0)

\* 1 -> 2 -> 3, all of it one summary.
SeedSpan == insert_summary(ChainDB(3), 1, 3)

\* 1 -> 2 -> 3, the root summarized and two messages in the tail.
SeedTail == insert_summary(ChainDB(3), 1, 1)

\* 1 -> 2 -> 3 -> 4 under three summaries [1..1], [2..3], [4..4].
SeedThree ==
    insert_summary(insert_summary(insert_summary(ChainDB(4), 1, 1), 2, 3), 4, 4)

Seeds == {SeedEmpty, SeedSpan, SeedTail, SeedThree}

Init ==
    /\ db \in Seeds
    /\ cache = <<>>
    /\ curr_capacity = 0
    /\ max_capacity \in 1..MaxCapacity
    /\ impl = Backend
    /\ hist = <<>>
    /\ calls = NoCalls

\* The state a dispatcher action leaves.
Dispatched(op, r) ==
    /\ db' = r.db
    /\ cache' = r.cache
    /\ curr_capacity' = r.curr_capacity
    /\ hist' = Append(hist, Call(op, Thread, r.err, None))
    /\ UNCHANGED <<max_capacity, impl, calls>>

\* dispatch("add_message", ...); shift is the answer of the topic-shift detector.
ActAddMessage(prev, trigger, batch, shift) ==
    /\ Len(hist) < MaxActions
    /\ Cardinality(DOMAIN db.messages) < MaxMessages
    /\ \E r \in {DispatchAddMessage(St(db, cache, curr_capacity, ""), max_capacity,
                                    Thread, prev, trigger, batch, shift)} :
           Dispatched("add_message", r)

\* dispatch("branch_off", ...)
ActBranchOff(b) ==
    /\ Len(hist) < MaxActions
    /\ \E r \in {DispatchBranchOff(St(db, cache, curr_capacity, ""), max_capacity, Thread, b)} :
           Dispatched("branch_off", r)

\* dispatch("delete_branch", ...)
ActDeleteBranch(b) ==
    /\ Len(hist) < MaxActions
    /\ \E r \in {DispatchDeleteBranch(St(db, cache, curr_capacity, ""), max_capacity, Thread, b)} :
           Dispatched("delete_branch", r)

Next ==
    \/ \E prev \in DOMAIN db.messages \cup {None}, trigger, shift \in BOOLEAN,
          batch \in 1..MaxBatch : ActAddMessage(prev, trigger, batch, shift)
    \/ \E b \in DOMAIN db.messages : ActBranchOff(b)
    \/ \E b \in DOMAIN db.messages : ActDeleteBranch(b)

Spec == Init /\ [][Next]_vars

\* ------------------------------------------------------------ dispatcher claims

RECURSIVE SpanUp(_, _, _)
\* The messages from m up the parent links of the store to `start`.
SpanUp(d, start, m) ==
    IF m = None \/ m \notin DOMAIN d.messages THEN {}
    ELSE IF m = start THEN {m}
    ELSE {m} \cup SpanUp(d, start, LinkParent(d.links, m))

\* The messages a summary of the store covers.
Span(d, s) == SpanUp(d, d.summaries[s].start_message_id, d.summaries[s].end_message_id)

\* C1 (R1): after an add_message action that returned, the cached MessageTree
\* of the thread equals the one loaded from the store: same nodes, same
\* parent, same child_ids sequence per node.
R1_AddMessageRoundTrip ==
    (/\ hist # <<>>
     /\ Last(hist).op = "add_message"
     /\ Last(hist).err = "")
    => /\ Thread \in CacheKeys(cache)
       /\ CacheEntry(cache, Thread).mt.index = LoadMessageTree(db, Thread).index

\* C3 (I3): every message strictly between the start and the end of a summary
\* has exactly one child.
I3_LinearSpan ==
    \A s \in DOMAIN db.summaries :
        \A m \in Span(db, s) \ {db.summaries[s].start_message_id,
                                db.summaries[s].end_message_id} :
            Len(LinkChildren(db.links, m)) = 1

\* C4 (S2): no two summaries have the same start message and no two the same
\* end message, in the store and in the cached SummaryTree.
S2_InjectiveLookups ==
    /\ \A x, y \in DOMAIN db.summaries :
           x # y => /\ db.summaries[x].start_message_id # db.summaries[y].start_message_id
                    /\ db.summaries[x].end_message_id # db.summaries[y].end_message_id
    /\ \A i \in 1..Len(cache) :
           \A x, y \in DOMAIN cache[i].st.summary_id_lookup :
               x # y => /\ cache[i].st.summary_id_lookup[x].start_message_id
                             # cache[i].st.summary_id_lookup[y].start_message_id
                        /\ cache[i].st.summary_id_lookup[x].end_message_id
                             # cache[i].st.summary_id_lookup[y].end_message_id

\* C5 (S3): no message lies in the spans of two summaries, and the parent of
\* a summarized message is summarized (the spans cover a prefix of every
\* root-to-leaf path).
S3_PrefixPartition ==
    /\ \A x, y \in DOMAIN db.summaries : x # y => Span(db, x) \cap Span(db, y) = {}
    /\ \A x \in DOMAIN db.summaries : \A m \in Span(db, x) :
           \/ LinkParent(db.links, m) = None
           \/ \E y \in DOMAIN db.summaries : LinkParent(db.links, m) \in Span(db, y)

\* ------------------------------------------------------------ SpecTree
\* The trees of one thread, fetched once from the cache of either module and
\* then driven through their own methods, as the tree tests do.

InitTree ==
    /\ db \in Seeds
    /\ impl \in {Backend, Draft}
    /\ max_capacity = MaxCapacity
    /\ \E r \in {TreeCacheGet(<<>>, 0, max_capacity, db, Thread, impl)} :
           /\ r.err = ""
           /\ cache = r.cache
           /\ curr_capacity = r.curr_capacity
    /\ hist = <<>>
    /\ calls = NoCalls

\* The trees the caller holds.
Trees == CacheEntry(cache, Thread)

\* The state a tree method leaves.
TreeCalled(op, mt, st, err) ==
    /\ cache' = WithTrees(cache, Thread, mt, st)
    /\ hist' = Append(hist, Call(op, Thread, err, None))
    /\ UNCHANGED <<db, curr_capacity, max_capacity, impl, calls>>

RECURSIVE TreeChain(_, _, _)
\* The messages from m up the parent ids of the index to `start`.
TreeChain(ix, start, m) ==
    IF m = None \/ m \notin DOMAIN ix THEN {}
    ELSE IF m = start THEN {m}
    ELSE {m} \cup TreeChain(ix, start, ix[m].parent_id)

\* The ids of the summary nodes, and the messages their spans cover.
NodeIds(st) == {st.summary_id_lookup[k].id : k \in DOMAIN st.summary_id_lookup}

Covered(mt, st) ==
    UNION {TreeChain(mt.index, st.summary_id_lookup[k].start_message_id,
                     st.summary_id_lookup[k].end_message_id) :
           k \in DOMAIN st.summary_id_lookup}

\* message_tree.add_message(id, content, prev) with a new id.
TreeAddMessage(prev) ==
    /\ Len(hist) < MaxCalls
    /\ Cardinality(DOMAIN Trees.mt.index) < MaxMessages
    /\ \E r \in {IF impl = Draft
                 THEN DraftAddMessage(Trees.mt, NextId(DOMAIN Trees.mt.index), prev)
                 ELSE AddMessage(Trees.mt, NextId(DOMAIN Trees.mt.index), prev)} :
           TreeCalled("add_message", r.mt, Trees.st, r.err)

\* summary_tree.add_summary(id, content, start, end) with a new id, over a
\* linear chain of messages no summary covers, which starts at the root or
\* under the end of a summary.
TreeAddSummary(start, end) ==
    /\ Len(hist) < MaxCalls
    /\ start \in TreeChain(Trees.mt.index, start, end)
    /\ TreeChain(Trees.mt.index, start, end) \cap Covered(Trees.mt, Trees.st) = {}
    /\ \A m \in TreeChain(Trees.mt.index, start, end) \ {end} :
           Len(Trees.mt.index[m].child_ids) = 1
    /\ \/ Trees.mt.index[start].parent_id = None
       \/ Trees.mt.index[start].parent_id \in DOMAIN Trees.st.end_message_lookup
    /\ \E r \in {IF impl = Draft
                 THEN DraftAddSummary(Trees.mt, Trees.st, NextId(NodeIds(Trees.st)), start, end)
                 ELSE AddSummary(Trees.mt, Trees.st, NextId(NodeIds(Trees.st)), start, end)} :
           TreeCalled("add_summary", Trees.mt, r.st, r.err)

\* summary_tree.split_summary(id, pre_id, ..., b, post_id, ...) with two new
\* ids, b strictly inside the span of summary id and forked.
TreeSplitSummary(sid, b) ==
    /\ Len(hist) < MaxCalls
    /\ sid # BuiltinId
    /\ b # Trees.st.summary_id_lookup[sid].end_message_id
    /\ b \in TreeChain(Trees.mt.index, Trees.st.summary_id_lookup[sid].start_message_id,
                       Trees.st.summary_id_lookup[sid].end_message_id)
    /\ Trees.st.summary_id_lookup[sid].start_message_id
           \in TreeChain(Trees.mt.index, Trees.st.summary_id_lookup[sid].start_message_id,
                         Trees.st.summary_id_lookup[sid].end_message_id)
    /\ Trees.mt.index[b].child_ids # NoChildIds
    /\ Len(Trees.mt.index[b].child_ids) >= 2
    /\ \E r \in {IF impl = Draft
                 THEN DraftSplitSummary(Trees.mt, Trees.st, sid, NextId(NodeIds(Trees.st)),
                                        b, NextId(NodeIds(Trees.st)) + 1)
                 ELSE SplitSummary(Trees.mt, Trees.st, sid, NextId(NodeIds(Trees.st)),
                                   b, NextId(NodeIds(Trees.st)) + 1)} :
           TreeCalled("split_summary", Trees.mt, r.st, r.err)

NextTree ==
    \/ \E prev \in DOMAIN Trees.mt.index \cup {None} : TreeAddMessage(prev)
    \/ \E start, end \in DOMAIN Trees.mt.index : TreeAddSummary(start, end)
    \/ \E sid \in DOMAIN Trees.st.summary_id_lookup, b \in DOMAIN Trees.mt.index :
           TreeSplitSummary(sid, b)

SpecTree == InitTree /\ [][NextTree]_vars

\* ------------------------------------------------------------ tree claims

\* Every call so far returned.
AllReturned == \A i \in 1..Len(hist) : hist[i].err = ""

\* C2 (I4): after the load and any calls of add_summary and split_summary that
\* returned, every summary node n has start_message_lookup[n.start] = n.id and
\* end_message_lookup[n.end] = n.id, and the lookups have no other keys.
I4_IndexConsistency ==
    AllReturned =>
        \A i \in 1..Len(cache) :
            LET st == cache[i].st
                nodes == {st.summary_id_lookup[k] : k \in DOMAIN st.summary_id_lookup}
            IN  /\ DOMAIN st.start_message_lookup = {n.start_message_id : n \in nodes}
                /\ DOMAIN st.end_message_lookup = {n.end_message_id : n \in nodes}
                /\ \A n \in nodes :
                       /\ st.start_message_lookup[n.start_message_id] = n.id
                       /\ st.end_message_lookup[n.end_message_id] = n.id

\* C10 (I1): a non-empty MessageTree of the backend module, after the load and
\* any add_message calls that returned, has exactly one node without parent.
I1_SingleRoot ==
    (impl = Backend /\ AllReturned) =>
        \A i \in 1..Len(cache) :
            cache[i].mt.index # EmptyFn =>
                Cardinality({m \in DOMAIN cache[i].mt.index :
                                 cache[i].mt.index[m].parent_id = None}) = 1

\* ------------------------------------------------------------ tree shape

\* The positions of child_ids of node p that hold c.
ChildSlots(ix, p, c) == {k \in 1..Len(ix[p].child_ids) : ix[p].child_ids[k] = c}

\* C11 (I2): in every cached MessageTree the child lists and the parent ids
\* are inverse to each other with every child listed once, every parent id
\* and child id is a node of the index, and the parent ids lead from every
\* node to the root.
I2_TreeShape ==
    \A i \in 1..Len(cache) :
        LET ix == cache[i].mt.index
        IN  /\ \A p \in DOMAIN ix : \A k \in 1..Len(ix[p].child_ids) :
                   /\ ix[p].child_ids[k] \in DOMAIN ix
                   /\ ix[ix[p].child_ids[k]].parent_id = p
            /\ \A c \in DOMAIN ix :
                   ix[c].parent_id # None =>
                       /\ ix[c].parent_id \in DOMAIN ix
                       /\ Cardinality(ChildSlots(ix, ix[c].parent_id, c)) = 1
            /\ \A m \in DOMAIN ix :
                   cache[i].mt.root_message_id
                       \in TreeChain(ix, cache[i].mt.root_message_id, m)

\* ------------------------------------------------------------ summarization claims

\* The state Handler.add_message leaves when the dispatcher's add_message
\* starts in the current state.
Added(prev) == HandlerAddMessage(St(db, cache, curr_capacity, ""), max_capacity, Thread, prev)

\* The four conditions of summarization on the trees s1 holds.
Gate(s1, prev, trigger, batch, shift) ==
    /\ trigger
    /\ prev # None
    /\ shift
    /\ ~CountRaises(CacheEntry(s1.cache, Thread).mt, CacheEntry(s1.cache, Thread).st, prev)
    /\ count_unsummarized_messages(CacheEntry(s1.cache, Thread).mt,
                                   CacheEntry(s1.cache, Thread).st, prev) >= batch

\* C12: an add_message whose message was added creates a summary, in the
\* store and in the cached SummaryTree, exactly when summarization is
\* triggered, the parent is present, at least batch_size messages up to the
\* parent are unsummarized and the topic shifts; otherwise the summaries of
\* the store and the cached SummaryTree stay as they were.
C12_SummaryIffGate ==
    [][\A prev \in DOMAIN db.messages \cup {None}, trigger, shift \in BOOLEAN,
          batch \in 1..MaxBatch :
           (ActAddMessage(prev, trigger, batch, shift) /\ Added(prev).err = "") =>
               IF Gate(Added(prev), prev, trigger, batch, shift)
               THEN /\ Thread \in CacheKeys(cache')
                    /\ \E id \in DOMAIN db'.summaries \ DOMAIN db.summaries :
                           id \in NodeIds(CacheEntry(cache', Thread).st)
               ELSE /\ db'.summaries = db.summaries
                    /\ Thread \in CacheKeys(cache')
                    /\ CacheEntry(cache', Thread).st
                           = CacheEntry(Added(prev).cache, Thread).st]_vars

RECURSIVE TopmostUnsummarized(_, _, _)
\* The topmost message reached from m up the parent ids while the parent is
\* a message and ends no summary.
TopmostUnsummarized(mt, st, m) ==
    IF mt.index[m].parent_id = None
       \/ mt.index[m].parent_id \in DOMAIN st.end_message_lookup
       \/ mt.index[m].parent_id \notin DOMAIN mt.index
    THEN m
    ELSE TopmostUnsummarized(mt, st, mt.index[m].parent_id)

\* C13: an add_message that meets the four conditions of summarization adds
\* to the store exactly one summary; it ends at prev_message_id and starts at
\* the topmost ancestor reached from there while the parent ends no summary,
\* which is the root when no summary lies above.
C13_SummarySpan ==
    [][\A prev \in DOMAIN db.messages, trigger, shift \in BOOLEAN,
          batch \in 1..MaxBatch :
           (/\ ActAddMessage(prev, trigger, batch, shift)
            /\ Added(prev).err = ""
            /\ Gate(Added(prev), prev, trigger, batch, shift)) =>
               \E id \in DOMAIN db'.summaries \ DOMAIN db.summaries :
                   /\ DOMAIN db'.summaries = DOMAIN db.summaries \cup {id}
                   /\ db'.summaries[id].end_message_id = prev
                   /\ db'.summaries[id].start_message_id
                          = TopmostUnsummarized(CacheEntry(Added(prev).cache, Thread).mt,
                                                CacheEntry(Added(prev).cache, Thread).st,
                                                prev)]_vars

\* ------------------------------------------------------------ branch_off claims

\* The spans (start, end) of the summaries a SummaryTree holds.
NodeSpans(st) ==
    {[start_message_id |-> st.summary_id_lookup[k].start_message_id,
      end_message_id |-> st.summary_id_lookup[k].end_message_id] :
         k \in DOMAIN st.summary_id_lookup}

\* The summaries of store d other than x stay in store e as they were.
OthersKept(d, e, x) ==
    \A y \in DOMAIN d.summaries \ {x} :
        y \in DOMAIN e.summaries /\ e.summaries[y] = d.summaries[y]

\* The summaries of store e that are not the kept summaries of store d.
Fresh(d, e, x) == {e.summaries[y] : y \in DOMAIN e.summaries \ (DOMAIN d.summaries \ {x})}

\* C14: branch_off at a message b strictly inside the span of summary x
\* (b is not its end) returns, replaces x in the store and in the cached
\* SummaryTree by the two summaries [start of x .. b] and [first child of b ..
\* end of x], and leaves every other summary as it was; also when x is the
\* first summary of the thread.
C14_SplitLeavesPreAndPost ==
    [][\A b \in DOMAIN db.messages, x \in DOMAIN db.summaries :
           (/\ ActBranchOff(b)
            /\ b \in Span(db, x)
            /\ b # db.summaries[x].end_message_id
            /\ LinkChildren(db.links, b) # <<>>) =>
               /\ Last(hist').err = ""
               /\ OthersKept(db, db', x)
               /\ Fresh(db, db', x)
                      = {[start_message_id |-> db.summaries[x].start_message_id,
                          end_message_id |-> b],
                         [start_message_id |-> LinkChildren(db.links, b)[1],
                          end_message_id |-> db.summaries[x].end_message_id]}
               /\ Cardinality(DOMAIN db'.summaries) = Cardinality(DOMAIN db.summaries) + 1
               /\ Thread \in CacheKeys(cache')
               /\ NodeSpans(CacheEntry(cache', Thread).st)
                      = {db'.summaries[y] : y \in DOMAIN db'.summaries}]_vars

\* C15 (R2): after a branch_off that returned and split a summary, the
\* patched SummaryTree in the cache equals the SummaryTree loaded from the
\* store: the same summary ids with the same start, end, parent_id and
\* child_ids.
R2_SplitRoundTrip ==
    [][\A b \in DOMAIN db.messages :
           (/\ ActBranchOff(b)
            /\ Last(hist').err = ""
            /\ db'.summaries # db.summaries) =>
               /\ Thread \in CacheKeys(cache')
               /\ BuildPair(db', Thread, Backend).err = ""
               /\ CacheEntry(cache', Thread).st.summary_id_lookup
                      = BuildPair(db', Thread, Backend).st.summary_id_lookup]_vars

\* Message b ends a summary of the store.
EndsSummary(d, b) == \E x \in DOMAIN d.summaries : d.summaries[x].end_message_id = b

\* C16: branch_off at a message that ends a summary returns without error,
\* leaves the store as it was, and leaves the trees of the thread as they
\* were in the cache (as they are loaded from the store, when the thread was
\* not resident).
C16_BranchOffAtEndIsNoOp ==
    [][\A b \in DOMAIN db.messages :
           (ActBranchOff(b) /\ EndsSummary(db, b)) =>
               /\ Last(hist').err = ""
               /\ db' = db
               /\ Thread \in CacheKeys(cache')
               /\ IF Thread \in CacheKeys(cache)
                  THEN CacheEntry(cache', Thread) = CacheEntry(cache, Thread)
                  ELSE /\ CacheEntry(cache', Thread).mt = BuildPair(db, Thread, Backend).mt
                       /\ CacheEntry(cache', Thread).st = BuildPair(db, Thread, Backend).st]_vars

\* ------------------------------------------------------------ SpecFault
\* The dispatcher with a store that may fail: in add_message and branch_off
\* the store call number f raises StoreError (f = 0: none does).  The DB
\* methods commit one by one, so the calls before the failing one stay done;
\* the Handler catches nothing, so the exception ends the action.

MaxFaultCalls == 2

\* The store calls of Handler.add_message when insert_message (f = 1) or
\* insert_link (f = 2) raises.
StoreMessageF(d, t, prev, f) ==
    IF f = 1
    THEN [err |-> "StoreError", db |-> d]
    ELSE IF f = 2 /\ prev # None
    THEN [err |-> "StoreError", db |-> insert_message(d, t)]
    ELSE [err |-> "", db |-> StoreMessage(d, t, prev)]

\* Handler.add_message: the cache is fetched and the tree patched only after
\* both store calls returned.
HandlerAddMessageF(s, mc, t, prev, f) ==
    IF StoreMessageF(s.db, t, prev, f).err # ""
    THEN St(StoreMessageF(s.db, t, prev, f).db, s.cache, s.curr_capacity, "StoreError")
    ELSE HandlerAddMessage(s, mc, t, prev)

\* Handler._add_summary, the cache having answered g, when insert_summary
\* (f = 3) raises: summary_tree.add_summary is not reached.
AddSummaryOnF(s, g, t, prev, shift, f) ==
    IF f = 3 /\ AddSummaryOn(s, g, t, prev, shift).db # s.db
    THEN St(s.db, g.cache, g.curr_capacity, "StoreError")
    ELSE AddSummaryOn(s, g, t, prev, shift)

\* The summarization step of add_message with the failing store.
SummarizeOnF(s1, mc, t, prev, trigger, batch, shift, f) ==
    IF s1.err # "" \/ ~trigger \/ prev = None
    THEN s1
    ELSE IF CountRaises(CacheEntry(s1.cache, t).mt, CacheEntry(s1.cache, t).st, prev)
    THEN St(s1.db, s1.cache, s1.curr_capacity, "KeyError")
    ELSE IF count_unsummarized_messages(CacheEntry(s1.cache, t).mt,
                                        CacheEntry(s1.cache, t).st, prev) < batch
    THEN s1
    ELSE AddSummaryOnF(s1, TreeCacheGet(s1.cache, s1.curr_capacity, mc, s1.db, t, Backend),
                       t, prev, shift, f)

DispatchAddMessageF(s, mc, t, prev, trigger, batch, shift, f) ==
    SummarizeOnF(HandlerAddMessageF(s, mc, t, prev, f), mc, t, prev, trigger, batch, shift, f)

\* split_summary with the tree patched before the store is written.
SplitPatchesFirst(s, g, t, b, f) ==
    IF f \in 1..3 /\ SplitSummaryOn(s, g, t, b).db # s.db
    THEN St(s.db, SplitSummaryOn(s, g, t, b).cache, g.curr_capacity, "StoreError")
    ELSE SplitSummaryOn(s, g, t, b)

\* The store of split_summary before its store call number f: delete_summary
\* (1), insert_summary of the pre summary (2), of the post summary (3).
SplitStoreBefore(d, e, b, f) ==
    LET pre == IF b \in DOMAIN e.st.end_message_lookup
               THEN [err |-> "", start |-> b]
               ELSE TopOfWalk(e.mt, e.st, b)
        del == delete_summary(d, e.st.start_message_lookup[pre.start])
    IN  IF f = 1 THEN d
        ELSE IF f = 2 THEN del.db
        ELSE insert_summary(del.db, pre.start, b)

\* Handler.split_summary, the cache having answered g, when store call f
\* raises: summary_tree.split_summary is not reached.
SplitSummaryOnF(s, g, t, b, f) ==
    IF f \in 1..3 /\ SplitSummaryOn(s, g, t, b).db # s.db
    THEN St(SplitStoreBefore(s.db, CacheEntry(g.cache, t), b, f),
            g.cache, g.curr_capacity, "StoreError")
    ELSE SplitSummaryOn(s, g, t, b)

\* branch_off with the failing store, the cache having answered g.
BranchOffOnF(s, g, t, b, f) ==
    IF g.err # ""
    THEN St(s.db, g.cache, g.curr_capacity, g.err)
    ELSE IF b \in DOMAIN CacheEntry(g.cache, t).st.end_message_lookup
    THEN St(s.db, g.cache, g.curr_capacity, "")
    ELSE SplitSummaryOnF(St(s.db, g.cache, g.curr_capacity, ""), g, t, b, f)

DispatchBranchOffF(s, mc, t, b, f) ==
    BranchOffOnF(s, TreeCacheGet(s.cache, s.curr_capacity, mc, s.db, t, Backend), t, b, f)

\* The state a dispatcher action leaves; the history keeps the number of the
\* store call that raised (0: none).
DispatchedF(op, r, f) ==
    /\ db' = r.db
    /\ cache' = r.cache
    /\ curr_capacity' = r.curr_capacity
    /\ hist' = Append(hist, [op |-> op, key |-> Thread, err |-> r.err, victim |-> None,
                             failed |-> IF r.err = "StoreError" THEN f ELSE 0])
    /\ UNCHANGED <<max_capacity, impl, calls>>

\* dispatch("add_message", ...) against the failing store.
FaultAddMessage(prev, trigger, batch, shift, f) ==
    /\ Len(hist) < MaxFaultCalls
    /\ Cardinality(DOMAIN db.messages) < MaxMessages
    /\ \E r \in {DispatchAddMessageF(St(db, cache, curr_capacity, ""), max_capacity,
                                     Thread, prev, trigger, batch, shift, f)} :
           DispatchedF("add_message", r, f)

\* dispatch("branch_off", ...) against the failing store.
FaultBranchOff(b, f) ==
    /\ Len(hist) < MaxFaultCalls
    /\ \E r \in {DispatchBranchOffF(St(db, cache, curr_capacity, ""), max_capacity,
                                    Thread, b, f)} :
           DispatchedF("branch_off", r, f)

NextFault ==
    \/ \E prev \in DOMAIN db.messages \cup {None}, trigger, shift \in BOOLEAN,
          batch \in 1..MaxBatch, f \in 0..3 : FaultAddMessage(prev, trigger, batch, shift, f)
    \/ \E b \in DOMAIN db.messages, f \in 0..3 : FaultBranchOff(b, f)

\* The conversations of Seeds, the thread resident in the cache (fetched by an
\* earlier get that returned) or not.
InitFault ==
    /\ db \in Seeds
    /\ max_capacity \in 1..MaxCapacity
    /\ \E r \in {St(db, <<>>, 0, ""),
                 TreeCacheGet(<<>>, 0, max_capacity, db, Thread, Backend)} :
           /\ r.err = ""
           /\ cache = r.cache
           /\ curr_capacity = r.curr_capacity
    /\ impl = Backend
    /\ hist = <<>>
    /\ calls = NoCalls

SpecFault == InitFault /\ [][NextFault]_vars

\* ------------------------------------------------------------ write order

\* The cache as TreeCache.get leaves it in the current state.
Fetched == TreeCacheGet(cache, curr_capacity, max_capacity, db, Thread, Backend)

\* The parent of the message an add_message action has stored.
StoredParent(d, e) == LinkParent(e.links, NextId(DOMAIN d.messages))

\* The messages and summaries of the thread's trees in cache c.
CachedMessages(c) ==
    IF Thread \in CacheKeys(c) THEN DOMAIN CacheEntry(c, Thread).mt.index ELSE {}

CachedSummaries(c) ==
    IF Thread \in CacheKeys(c) THEN NodeIds(CacheEntry(c, Thread).st) ELSE {}

\* C17: in add_message (summarization included) and branch_off a message or
\* summary enters the cached trees only when the store holds it (it was
\* loaded from the store, or written to it by the action), and when a
\* store call fails and the action ends with its error the cache is as it was
\* before that call: untouched when insert_message or insert_link failed, as
\* Handler.add_message left it when insert_summary failed, as TreeCache.get
\* left it when a store call of the split failed.
C17_StoreBeforeMemory ==
    [][hist' # hist =>
       /\ CachedMessages(cache') \ CachedMessages(cache)
              \subseteq DOMAIN db.messages \cup DOMAIN db'.messages
       /\ CachedSummaries(cache') \ CachedSummaries(cache)
              \subseteq DOMAIN db.summaries \cup DOMAIN db'.summaries
       /\ (Last(hist').op = "add_message" /\ Last(hist').failed \in 1..2) =>
              cache' = cache
       /\ (Last(hist').op = "add_message" /\ Last(hist').failed = 3) =>
              cache' = Added(StoredParent(db, db')).cache
       /\ (Last(hist').op = "branch_off" /\ Last(hist').failed \in 1..3) =>
              cache' = Fetched.cache]_vars

\* A branch_off whose store failed after delete_summary: the cached
\* SummaryTree still has the summary the store has lost.
C17_Witness ==
    /\ hist # <<>>
    /\ Last(hist).op = "branch_off"
    /\ Last(hist).failed = 2
    /\ CachedSummaries(cache) \ DOMAIN db.summaries # {}

\* ------------------------------------------------------------ delete_branch claims

\* The messages of the subtree of the store at message b.
Subtree(d, b) == {m \in DOMAIN d.messages : b \in SpanUp(d, b, m)}

\* No summary of the store starts or ends in the set of messages S.
Unsummarized(d, S) ==
    \A x \in DOMAIN d.summaries :
        d.summaries[x].start_message_id \notin S /\ d.summaries[x].end_message_id \notin S

\* C18: delete_branch at a message b whose subtree carries no summary returns
\* and removes from the store exactly the messages of the subtree and the
\* links that touch it (the links among them and the link from the parent of
\* b); the other messages, links and summaries stay, so the parent of b keeps
\* its other children in their order.
C18_DeleteBranchFrame ==
    [][\A b \in DOMAIN db.messages :
           (ActDeleteBranch(b) /\ Unsummarized(db, Subtree(db, b))) =>
               /\ Last(hist').err = ""
               /\ DOMAIN db'.messages = DOMAIN db.messages \ Subtree(db, b)
               /\ db'.links = SelectSeq(db.links,
                                  LAMBDA l : /\ l.previous_message_id \notin Subtree(db, b)
                                             /\ l.next_message_id \notin Subtree(db, b))
               /\ db'.summaries = db.summaries]_vars

\* TreeCache.get(Thread) on cache c with counter cc over store d.
GetOn(c, cc, d) == TreeCacheGet(c, cc, max_capacity, d, Thread, Backend)

\* C19: after delete_branch at a message b that is not the root, the next get
\* of the thread returns, and every summary of the SummaryTree it returns
\* starts and ends at a message the store still holds.
C19_GetAfterDeleteBranch ==
    [][\A b \in DOMAIN db.messages :
           (ActDeleteBranch(b) /\ LinkParent(db.links, b) # None) =>
               /\ GetOn(cache', curr_capacity', db').err = ""
               /\ \A n \in NodeSpans(CacheEntry(GetOn(cache', curr_capacity', db').cache,
                                                Thread).st) :
                      /\ n.start_message_id \in DOMAIN db'.messages
                      /\ n.end_message_id \in DOMAIN db'.messages]_vars

\* ------------------------------------------------------------ store claims

\* The ids a caller may pass to the deletes.
Ids == 1..(MaxMessages + 1)

\* The store has the link a -> b.
HasLink(d, a, b) ==
    \E i \in 1..Len(d.links) :
        d.links[i].previous_message_id = a /\ d.links[i].next_message_id = b

\* C20 (R3): delete_summary, delete_message and delete_link called for a row
\* the store does not hold return without error and leave the store as it is.
R3_DeletesIdempotent ==
    /\ \A id \in Ids \ DOMAIN db.summaries :
           delete_summary(db, id) = [err |-> "", db |-> db]
    /\ \A id \in Ids \ DOMAIN db.messages :
           delete_message(db, id) = [err |-> "", db |-> db]
    /\ \A a, b \in Ids :
           ~HasLink(db, a, b) => delete_link(db, a, b) = [err |-> "", db |-> db]

\* ------------------------------------------------------------ SpecDispatch
\* ChatUpdateDispatcher.dispatch(action, payload): the clients of one thread
\* send registered action names and names the registry does not hold.

\* The number of dispatch calls followed.
MaxDispatches == 2

\* The keys of the action registry self.handlers.
Handlers == {"add_message", "add_summary", "branch_off", "delete_branch"}

\* The names the clients send.
ActionNames == Handlers \cup {"rename_thread", ""}

\* The payload of a call; message names the parent of add_message, the last
\* message of add_summary and the branch message of the two branch actions.
Payloads(d) ==
    [message : DOMAIN d.messages \cup {None}, trigger : BOOLEAN,
     batch : 1..MaxBatch, shift : BOOLEAN]

\* handler(**payload) for the handler registered under `action`.
HandlerFor(s, mc, t, action, p) ==
    CASE action = "add_message" ->
             DispatchAddMessage(s, mc, t, p.message, p.trigger, p.batch, p.shift)
      [] action = "add_summary" -> HandlerAddSummary(s, mc, t, p.message, p.shift)
      [] action = "branch_off" -> DispatchBranchOff(s, mc, t, p.message)
      [] action = "delete_branch" -> DispatchDeleteBranch(s, mc, t, p.message)

\* A dispatch without the membership test, unknown names landing on the
\* first registered handler.
DispatchFallsThrough(s, mc, t, action, p) ==
    IF action \notin Handlers
    THEN HandlerFor(s, mc, t, "add_message", p)
    ELSE HandlerFor(s, mc, t, action, p)

\* ChatUpdateDispatcher.dispatch: a name outside the registry raises
\* ValueError("Unsupported update type") before the handler is looked up.
Dispatch(s, mc, t, action, p) ==
    IF action \notin Handlers
    THEN St(s.db, s.cache, s.curr_capacity, "ValueError")
    ELSE HandlerFor(s, mc, t, action, p)

\* dispatch(action, payload) by a client of the thread.
ActDispatch(action, p) ==
    /\ Len(hist) < MaxDispatches
    /\ Cardinality(DOMAIN db.messages) < MaxMessages
    /\ action \in Handlers \ {"add_message"} => p.message # None
    /\ \E r \in {Dispatch(St(db, cache, curr_capacity, ""), max_capacity, Thread,
                          action, p)} :
           Dispatched(action, r)

NextDispatch == \E action \in ActionNames, p \in Payloads(db) : ActDispatch(action, p)

SpecDispatch == Init /\ [][NextDispatch]_vars

\* C21: a dispatch under a name outside the registry ends with the
\* unsupported-action error (ValueError "Unsupported update type") and leaves
\* the store, the cache and its counter as they were: no handler has run.
C21_UnknownActionRejected ==
    [][(hist' # hist /\ Last(hist').op \notin Handlers)
           => /\ Last(hist').err = "ValueError"
              /\ db' = db
              /\ cache' = cache
              /\ curr_capacity' = curr_capacity]_vars

\* An unknown name was refused on a thread whose trees are resident and whose
\* store an earlier action has changed.
C21_Witness ==
    /\ Len(hist) = 2
    /\ hist[1].op \in Handlers /\ hist[1].err = ""
    /\ hist[2].op \notin Handlers /\ hist[2].err = "ValueError"
    /\ cache # <<>>
    /\ db \notin Seeds

\* ------------------------------------------------------------ SpecConstruct
\* TreeCache(db, max_capacity) as its constructor accepts it: __init__ stores
\* the capacity it is given without a test, 0 included; the callers are those
\* of SpecCache.

InitConstruct ==
    /\ db \in {CacheSeedSingles, CacheSeedChain}
    /\ cache = <<>>
    /\ curr_capacity = 0
    /\ max_capacity \in 0..MaxCapacity
    /\ impl = Backend
    /\ hist = <<>>
    /\ calls = NoCalls

SpecConstruct == InitConstruct /\ [][NextCache]_vars

\* C22: a TreeCache of capacity 0 is refused by the constructor, so get is
\* never called on a cache whose max_capacity is 0.
C22_ZeroCapacityRejected ==
    max_capacity = 0 => \A i \in 1..Len(hist) : hist[i].op # "get"

\* ------------------------------------------------------------ SpecRace
\* Two callers inside TreeCache.get at the same time, each calling once.  get
\* takes no lock; a caller is suspended at the store calls of the two tree
\* constructors, so its call falls into three steps: the lookup with the
\* eviction, the construction, and the insertion with the return.

\* The call of p has ended with err, p holding the pair `object`.
Returned(p, t, err, victim, object) ==
    /\ hist' = Append(hist, Call("get", t, err, victim))
    /\ calls' = [calls EXCEPT !.pc[p] = "done", !.key[p] = t, !.object[p] = object]

\* `if self.cache.get(thread_id) is None`, and on a miss the eviction; a hit
\* returns self.cache[thread_id] at once.
Begin(p, t) ==
    /\ calls.pc[p] = "idle"
    /\ UNCHANGED <<db, max_capacity, impl>>
    /\ IF t \in CacheKeys(cache)
       THEN /\ Returned(p, t, "", None, calls.slot[t])
            /\ UNCHANGED <<cache, curr_capacity>>
       ELSE IF max_capacity = curr_capacity /\ cache = <<>>
       THEN /\ Returned(p, t, "KeyError", None, None)
            /\ UNCHANGED <<cache, curr_capacity>>
       ELSE \E ev \in {Evict(cache, curr_capacity, max_capacity)} :
                /\ cache' = ev.cache
                /\ curr_capacity' = ev.curr_capacity
                /\ calls' = [calls EXCEPT !.pc[p] = "build", !.key[p] = t,
                                          !.victim[p] = ev.victim]
                /\ hist' = hist

\* MessageTree(thread_id, self.db) and SummaryTree(message_tree, self.db).
Build(p) ==
    /\ calls.pc[p] = "build"
    /\ UNCHANGED <<db, cache, curr_capacity, max_capacity, impl>>
    /\ \E pair \in {BuildPair(db, calls.key[p], impl)} :
           IF pair.err # ""
           THEN Returned(p, calls.key[p], pair.err, calls.victim[p], None)
           ELSE /\ calls' = [calls EXCEPT !.pc[p] = "insert", !.pair[p] = pair,
                                          !.object[p] = Len(calls.made) + 1,
                                          !.made = Append(calls.made, calls.key[p])]
                /\ hist' = hist

\* self.cache[thread_id] = pair (the value under a key already there is
\* replaced), curr_capacity += 1, move_to_end(last=False), and the return of
\* self.cache[thread_id].
Finish(p) ==
    /\ calls.pc[p] = "insert"
    /\ cache' = InsertFront(TreeCacheDelete(cache, calls.key[p]),
                            [key |-> calls.key[p], mt |-> calls.pair[p].mt,
                             st |-> calls.pair[p].st])
    /\ curr_capacity' = curr_capacity + 1
    /\ hist' = Append(hist, Call("get", calls.key[p], "", calls.victim[p]))
    /\ calls' = [calls EXCEPT !.pc[p] = "done",
                              !.slot = Put(calls.slot, calls.key[p], calls.object[p])]
    /\ UNCHANGED <<db, max_capacity, impl>>

NextRace ==
    \E p \in Callers :
        \/ \E t \in CacheThreads : Begin(p, t)
        \/ Build(p)
        \/ Finish(p)

SpecRace == InitCache /\ [][NextRace]_vars

\* The pairs constructed for thread t.
MadeFor(t) == {i \in 1..Len(calls.made) : calls.made[i] = t}

\* C23: when two gets of the same thread have returned, interleaved or not,
\* the pair of that thread was constructed at most once, both callers hold the
\* same pair, and the counter of the cache equals the number of resident
\* threads and does not exceed the capacity.
C23_ConcurrentGetBuildsOnce ==
    \A p, q \in Callers :
        (/\ p # q
         /\ calls.pc[p] = "done" /\ calls.pc[q] = "done"
         /\ calls.key[p] = calls.key[q]
         /\ \A i \in 1..Len(hist) : hist[i].err = "")
        => /\ Cardinality(MadeFor(calls.key[p])) <= 1
           /\ calls.object[p] = calls.object[q]
           /\ curr_capacity = Len(cache)
           /\ curr_capacity <= max_capacity

\* ------------------------------------------------------------ add_message errors

\* C24: add_message with no parent on a backend tree that already holds a
\* node raises and leaves the index as it was.
C24_SecondRootRejected ==
    [][(impl = Backend /\ Trees.mt.index # EmptyFn /\ TreeAddMessage(None))
           => /\ Last(hist').err # ""
              /\ CacheEntry(cache', Thread).mt.index = Trees.mt.index]_vars

\* message_tree.add_message(id, content, prev) of the module the caller
\* imported, on the trees the caller holds, with a new id.
AddMessageOf(prev) ==
    IF impl = Draft
    THEN DraftAddMessage(Trees.mt, NextId(DOMAIN Trees.mt.index), prev)
    ELSE AddMessage(Trees.mt, NextId(DOMAIN Trees.mt.index), prev)

\* C25: add_message under a parent id that is not in the tree (and is not the
\* new id itself) raises, and the index is afterwards what it was before the
\* call: the new node is not in it.
C25_UnknownParentLeavesIndex ==
    \A prev \in Ids \ (DOMAIN Trees.mt.index \cup {NextId(DOMAIN Trees.mt.index)}) :
        /\ AddMessageOf(prev).err # ""
        /\ AddMessageOf(prev).mt.index = Trees.mt.index

\* ------------------------------------------------------------ load errors

\* The stored links of thread t.
ThreadLinks(d, t) == SelectSeq(d.links, LAMBDA l : l.thread_id = t)

\* The messages of thread t no stored link of the thread leads to.
Parentless(d, t) ==
    {m \in fetch_messages(d, t) :
        \A i \in 1..Len(ThreadLinks(d, t)) : ThreadLinks(d, t)[i].next_message_id # m}

\* A stored link of thread t has an end that is no message of the thread.
Dangling(d, t) ==
    \E i \in 1..Len(ThreadLinks(d, t)) :
        \/ ThreadLinks(d, t)[i].previous_message_id \notin fetch_messages(d, t)
        \/ ThreadLinks(d, t)[i].next_message_id \notin fetch_messages(d, t)

\* C26: whenever the store gives the thread no parentless message, more than
\* one, or a link with an end outside the thread, the load of its MessageTree
\* raises and returns no tree.
C26_CorruptStoreFailsLoad ==
    (Cardinality(Parentless(db, Thread)) # 1 \/ Dangling(db, Thread))
        => LoadMessageTree(db, Thread).err # ""

\* tree_cache.get(thread) on a new cache over a store whose thread holds no
\* message, in the module the caller imported.
GetEmptyThread == TreeCacheGet(<<>>, 0, max_capacity, SeedEmpty, Thread, impl)

\* add_message(1, content, None) on the message tree that get returned.
AddFirstMessage ==
    IF impl = Draft
    THEN DraftAddMessage(CacheEntry(GetEmptyThread.cache, Thread).mt, 1, None)
    ELSE AddMessage(CacheEntry(GetEmptyThread.cache, Thread).mt, 1, None)

\* C27: get on a thread without messages returns a pair whose message index
\* is empty, and add_message(1, content, None) on it returns and leaves the
\* index with the single node 1, parentless.
C27_EmptyThreadThenRoot ==
    /\ GetEmptyThread.err = ""
    /\ CacheEntry(GetEmptyThread.cache, Thread).mt.index = EmptyFn
    /\ AddFirstMessage.err = ""
    /\ DOMAIN AddFirstMessage.mt.index = {1}
    /\ AddFirstMessage.mt.index[1].parent_id = None

\* ------------------------------------------------------------ summary edges

\* The ids in the child list of summary node a.
ChildIdsOf(a) == {a.child_ids[k] : k \in 1..Len(a.child_ids)}

\* The three readings of "summary b hangs under summary a" agree, for the
\* summary tree st over the message tree mt.
EdgesAgree(mt, st) ==
    \A x, y \in DOMAIN st.summary_id_lookup :
        LET a == st.summary_id_lookup[x]
            b == st.summary_id_lookup[y]
        IN  /\ (b.id \in ChildIdsOf(a)) <=> (b.parent_id = a.id)
            /\ (b.parent_id = a.id) <=>
                   (/\ b.start_message_id \in DOMAIN mt.index
                    /\ mt.index[b.start_message_id].parent_id = a.end_message_id)

\* No edge of the summary tree st leaves its nodes.
EdgesClosed(st) ==
    \A x \in DOMAIN st.summary_id_lookup :
        /\ st.summary_id_lookup[x].parent_id \in DOMAIN st.summary_id_lookup \cup {None}
        /\ ChildIdsOf(st.summary_id_lookup[x]) \subseteq DOMAIN st.summary_id_lookup

\* C28: in a backend SummaryTree, after the load and any add_summary and
\* split_summary calls that returned, summary b is in the child list of summary
\* a iff b's parent is a iff the parent of b's start message is a's end
\* message, and every parent and child id names a summary of the tree; after a
\* split that covers the old summary's parent and children.
C28_SummaryEdgesMirrorMessages ==
    (impl = Backend /\ AllReturned) =>
        /\ EdgesAgree(Trees.mt, Trees.st)
        /\ EdgesClosed(Trees.st)

\* ------------------------------------------------------------ parent walks

\* C29: on every tree the cache holds, the parent walk of _add_summary and of
\* split_summary from any message that ends no summary comes to an end without
\* an exception, also when no end of a summary lies between the message and
\* the root.
C29_ParentWalksEnd ==
    \A i \in 1..Len(cache) :
        \A m \in DOMAIN cache[i].mt.index \ DOMAIN cache[i].st.end_message_lookup :
            TopOfWalk(cache[i].mt, cache[i].st, m).err = ""

\* ------------------------------------------------------------ split at the end

\* summary_tree.split_summary of the backend on the trees the caller holds,
\* at the end message of summary sid, with two new ids.
SplitAtEnd(sid) ==
    SplitSummary(Trees.mt, Trees.st, sid, NextId(NodeIds(Trees.st)),
                 Trees.st.summary_id_lookup[sid].end_message_id,
                 NextId(NodeIds(Trees.st)) + 1)

\* C30: split_summary of the backend called with the end message of the
\* summary as branch-off message raises, and the three lookups are afterwards
\* what they were before the call.
C30_SplitAtEndRejected ==
    impl = Backend =>
        \A sid \in DOMAIN Trees.st.summary_id_lookup :
            /\ SplitAtEnd(sid).err # ""
            /\ SplitAtEnd(sid).st.summary_id_lookup = Trees.st.summary_id_lookup
            /\ SplitAtEnd(sid).st.start_message_lookup = Trees.st.start_message_lookup
            /\ SplitAtEnd(sid).st.end_message_lookup = Trees.st.end_message_lookup

\* ------------------------------------------------------------ partial summaries

\* 1 -> 2 -> 3 with the one summary [2..3]: message 1, above it, is
\* unsummarized.
SeedUpper == insert_summary(ChainDB(3), 2, 3)

\* The pair the imported module builds for the thread of store d.
LoadedFrom(d) == BuildPair(d, Thread, impl)

\* C31: the load of a partially summarized thread returns.  A summary whose
\* start message has a parent at which no summary ends is loaded with
\* parent_id None, and a child of a summary's end message that starts no
\* summary is left out of that summary's child_ids.
C31_PartialSummariesLoad ==
    /\ LoadedFrom(SeedUpper).err = ""
    /\ LoadedFrom(SeedUpper).st.summary_id_lookup[1].parent_id = None
    /\ LoadedFrom(SeedTail).err = ""
    /\ LoadedFrom(SeedTail).st.summary_id_lookup[1].child_ids = <<>>

\* ------------------------------------------------------------ root summary

\* start_message_lookup.get(root_message_id) for the trees mt and st.
RootSummaryOf(mt, st) ==
    IF mt.root_message_id \in DOMAIN st.start_message_lookup
    THEN st.start_message_lookup[mt.root_message_id]
    ELSE None

\* C32: in a backend SummaryTree, after the load and any calls of its methods
\* that returned, root_summary_id is the summary that starts at the root
\* message, None when there is none.
C32_RootSummaryTracksRoot ==
    (impl = Backend /\ AllReturned) =>
        Trees.st.root_summary_id = RootSummaryOf(Trees.mt, Trees.st)

\* ------------------------------------------------------------ counting

\* Message m and its ancestors in the index ix.
AncestorsOrSelf(ix, m) == TreeChain(ix, None, m)

\* The messages on the parent path of m that lie below every end of a summary
\* on that path: m itself and its ancestors, up to but without the nearest
\* one that ends a summary, up to the root when there is none.
UnsummarizedAbove(mt, st, m) ==
    {x \in AncestorsOrSelf(mt.index, m) :
        \A e \in AncestorsOrSelf(mt.index, m) \cap DOMAIN st.end_message_lookup :
            x \notin AncestorsOrSelf(mt.index, e)}

\* C33: on the trees the cache holds, count_unsummarized_messages(m) is the
\* number of messages on the parent path from m up to, and without, the
\* nearest ancestor-or-self that ends a summary (the whole path to the root
\* when there is none), and it is 0 exactly when m ends a summary.
C33_CountIsUnsummarizedPath ==
    \A i \in 1..Len(cache) :
        \A m \in DOMAIN cache[i].mt.index :
            ~CountRaises(cache[i].mt, cache[i].st, m) =>
                /\ count_unsummarized_messages(cache[i].mt, cache[i].st, m)
                       = Cardinality(UnsummarizedAbove(cache[i].mt, cache[i].st, m))
                /\ (count_unsummarized_messages(cache[i].mt, cache[i].st, m) = 0)
                       <=> (m \in DOMAIN cache[i].st.end_message_lookup)

\* After an add_message that returned, the cached tree holds a message whose
\* count of two or more stops under the end of a summary, and one whose count
\* of two or more runs through the root.
C33_Witness ==
    /\ hist # <<>> /\ Last(hist).op = "add_message" /\ Last(hist).err = ""
    /\ \E i \in 1..Len(cache) :
           /\ \E m \in DOMAIN cache[i].mt.index :
                  /\ count_unsummarized_messages(cache[i].mt, cache[i].st, m) >= 2
                  /\ AncestorsOrSelf(cache[i].mt.index, m)
                         \cap DOMAIN cache[i].st.end_message_lookup # {}
           /\ \E m \in DOMAIN cache[i].mt.index :
                  /\ count_unsummarized_messages(cache[i].mt, cache[i].st, m) >= 2
                  /\ AncestorsOrSelf(cache[i].mt.index, m)
                         \cap DOMAIN cache[i].st.end_message_lookup = {}

\* ------------------------------------------------------------ is_summarized

RECURSIVE IsSummarizedSkipsSelf(_, _, _)
\* An is_summarized that looks for the end of a summary only after it has
\* stepped to the child.
IsSummarizedSkipsSelf(mt, st, m) ==
    IF m \notin DOMAIN mt.index
    THEN [err |-> "KeyError", value |-> FALSE]
    ELSE IF mt.index[m].child_ids = <<>>
    THEN [err |-> "", value |-> m \in DOMAIN st.end_message_lookup]
    ELSE IF Len(mt.index[m].child_ids) # 1
    THEN [err |-> "AssertionError", value |-> FALSE]
    ELSE IsSummarizedSkipsSelf(mt, st, mt.index[m].child_ids[1])

RECURSIVE is_summarized(_, _, _)
\* SummaryTree.is_summarized of backend/services/chat_trees.py: the loop from
\* message m on; value is the boolean returned when err is "".
is_summarized(mt, st, m) ==
    IF m \in DOMAIN st.end_message_lookup
    THEN [err |-> "", value |-> TRUE]
    ELSE IF m \notin DOMAIN mt.index
    THEN [err |-> "KeyError", value |-> FALSE]
    ELSE IF mt.index[m].child_ids = <<>>
    THEN [err |-> "", value |-> FALSE]
    ELSE IF Len(mt.index[m].child_ids) # 1
    THEN [err |-> "AssertionError", value |-> FALSE]
    ELSE is_summarized(mt, st, mt.index[m].child_ids[1])

\* C34: on a backend tree, after the load and any calls that returned,
\* is_summarized(m) ends for every message m: it returns true when m ends a
\* summary, returns false when m ends none and is a leaf, raises the assertion
\* error when m ends none and has two or more children, and otherwise answers
\* as it does for the only child of m.
C34_IsSummarizedWalksDown ==
    (impl = Backend /\ AllReturned) =>
        \A m \in DOMAIN Trees.mt.index :
            LET r == is_summarized(Trees.mt, Trees.st, m)
                kids == Trees.mt.index[m].child_ids
            IN  IF m \in DOMAIN Trees.st.end_message_lookup
                THEN r = [err |-> "", value |-> TRUE]
                ELSE IF kids = <<>>
                THEN r = [err |-> "", value |-> FALSE]
                ELSE IF Len(kids) >= 2
                THEN r.err = "AssertionError"
                ELSE r = is_summarized(Trees.mt, Trees.st, kids[1])

\* After calls that returned, the backend tree holds a message from which the
\* walk steps down to the end of a summary, one from which it steps down to a
\* leaf, and a fork that ends no summary.
C34_Witness ==
    /\ impl = Backend /\ AllReturned /\ hist # <<>>
    /\ \E a, b, c \in DOMAIN Trees.mt.index \ DOMAIN Trees.st.end_message_lookup :
           /\ Len(Trees.mt.index[a].child_ids) = 1
           /\ Len(Trees.mt.index[b].child_ids) = 1
           /\ Len(Trees.mt.index[c].child_ids) >= 2
           /\ is_summarized(Trees.mt, Trees.st, a) = [err |-> "", value |-> TRUE]
           /\ is_summarized(Trees.mt, Trees.st, b) = [err |-> "", value |-> FALSE]
           /\ is_summarized(Trees.mt, Trees.st, c).err = "AssertionError"

\* ------------------------------------------------------------ fork order

\* Sequence a is the beginning of sequence b.
IsPrefix(a, b) == Len(a) <= Len(b) /\ SubSeq(b, 1, Len(a)) = a

\* C35: a step of the backend tree keeps every node and keeps its child_ids
\* as the beginning of its later child_ids, and a child list that grows has
\* grown by the new message id at its end: the first child stays first and
\* the children stand in the order in which they were added.
C35_ForkOrderKept ==
    [][impl = Backend =>
           \A p \in DOMAIN Trees.mt.index :
               /\ p \in DOMAIN CacheEntry(cache', Thread).mt.index
               /\ IsPrefix(Trees.mt.index[p].child_ids,
                           CacheEntry(cache', Thread).mt.index[p].child_ids)
               /\ CacheEntry(cache', Thread).mt.index[p].child_ids
                      \in {Trees.mt.index[p].child_ids,
                           Append(Trees.mt.index[p].child_ids,
                                  NextId(DOMAIN Trees.mt.index))}]_vars

\* Two add_message calls of the backend have put two children behind a child
\* that was loaded from the store: a node has three children, the loaded one
\* first, the newest one last.
C35_Witness ==
    /\ impl = Backend /\ AllReturned
    /\ Len(hist) >= 2
    /\ \E p \in DOMAIN Trees.mt.index :
           /\ Len(Trees.mt.index[p].child_ids) = 3
           /\ Trees.mt.index[p].child_ids[1] = LinkChildren(db.links, p)[1]
           /\ Trees.mt.index[p].child_ids[2] < Trees.mt.index[p].child_ids[3]
           /\ Trees.mt.index[p].child_ids[3] = Max(DOMAIN Trees.mt.index)

\* ------------------------------------------------------------ failed delete_branch

\* The call h is a delete_branch that a delete of the store ended.
StoreFailedDelete(h) ==
    h.op = "delete_branch" /\ h.err \in {"IntegrityError", "UnmappedInstanceError"}

\* The message tree mt has exactly one node without parent.
SingleRoot(mt) ==
    Cardinality({m \in DOMAIN mt.index : mt.index[m].parent_id = None}) = 1

\* In the message tree mt the child lists and the parent ids are inverse to
\* each other, every child is listed once, and every node hangs under the root.
TreeShape(mt) ==
    /\ \A p \in DOMAIN mt.index : \A k \in 1..Len(mt.index[p].child_ids) :
           /\ mt.index[p].child_ids[k] \in DOMAIN mt.index
           /\ mt.index[mt.index[p].child_ids[k]].parent_id = p
    /\ \A c \in DOMAIN mt.index :
           mt.index[c].parent_id # None =>
               /\ mt.index[c].parent_id \in DOMAIN mt.index
               /\ Cardinality(ChildSlots(mt.index, mt.index[c].parent_id, c)) = 1
    /\ \A m \in DOMAIN mt.index :
           mt.root_message_id \in TreeChain(mt.index, mt.root_message_id, m)

\* C36: when a delete of the store has ended delete_branch, the thread is no
\* longer in the cache, and a get of the thread returns a MessageTree over the
\* messages the store still holds that has a single root and the shape of a
\* tree.
C36_FailedDeleteBranchRebuilds ==
    (hist # <<>> /\ StoreFailedDelete(Last(hist))) =>
        /\ Thread \notin CacheKeys(cache)
        /\ GetOn(cache, curr_capacity, db).err = ""
        /\ DOMAIN CacheEntry(GetOn(cache, curr_capacity, db).cache, Thread).mt.index
               = fetch_messages(db, Thread)
        /\ SingleRoot(CacheEntry(GetOn(cache, curr_capacity, db).cache, Thread).mt)
        /\ TreeShape(CacheEntry(GetOn(cache, curr_capacity, db).cache, Thread).mt)

\* ------------------------------------------------------------ aborted branch_off

\* The summary tree a load from store d builds for the thread, compared with
\* the summary tree st.
ReloadGives(d, st) ==
    /\ BuildPair(d, Thread, Backend).err = ""
    /\ BuildPair(d, Thread, Backend).st = st

\* C37: after a branch_off that one of its three store calls has ended
\* (delete_summary, the insert of the pre summary, the insert of the post
\* summary), the SummaryTree of the thread, when the cache still holds it, is
\* the one a load from the store builds.
C37_AbortedBranchOffInSync ==
    (/\ hist # <<>>
     /\ Last(hist).op = "branch_off"
     /\ Last(hist).failed \in 1..3
     /\ Thread \in CacheKeys(cache))
        => ReloadGives(db, CacheEntry(cache, Thread).st)

\* ------------------------------------------------------------ delete_link frame

\* The links of sequence ls without the link from a to b.
WithoutLink(ls, a, b) ==
    SelectSeq(ls, LAMBDA l : ~(l.previous_message_id = a /\ l.next_message_id = b))

\* C38: delete_link(a, b) for a stored link from a to b returns and removes
\* that link and no other: the links from a to the siblings of b are still
\* stored afterwards.
C38_DeleteLinkRemovesThatLink ==
    \A a, b \in Ids :
        HasLink(db, a, b) =>
            /\ delete_link(db, a, b).err = ""
            /\ delete_link(db, a, b).db.links = WithoutLink(db.links, a, b)

\* ------------------------------------------------------------ thread isolation

\* Stores d and e hold the same messages and the same links for thread t.
SameThread(d, e, t) ==
    /\ fetch_messages(d, t) = fetch_messages(e, t)
    /\ ThreadLinks(d, t) = ThreadLinks(e, t)

\* C39: the message tree built for a thread depends on that thread's messages
\* and links alone: two stores that agree on thread t and differ in another
\* thread give the same outcome of _load_message_tree for t, the same tree or
\* the same failure.
C39_LoadIsolatesThreads ==
    \A t \in CacheThreads : \A d \in {CacheSeedSingles, CacheSeedChain} :
        SameThread(db, d, t) => LoadMessageTree(db, t) = LoadMessageTree(d, t)

\* ------------------------------------------------------------ pre summary contents

RECURSIVE PreContents(_, _, _)
\* The list the parent walk of Handler.split_summary hands to generate_summary
\* for the pre summary, from message m: the content of every message visited
\* is appended while the current id ends no summary. A message's content is
\* written as the message's id.
PreContents(mt, st, m) ==
    IF m \in DOMAIN st.end_message_lookup
    THEN [err |-> "", contents |-> <<>>]
    ELSE IF m \notin DOMAIN mt.index
    THEN [err |-> "KeyError", contents |-> <<>>]
    ELSE LET r == PreContents(mt, st, mt.index[m].parent_id)
         IN  [err |-> r.err, contents |-> <<m>> \o r.contents]

\* Sequence c of messages runs down the tree: each one is the parent of the next.
Chronological(mt, c) ==
    \A i \in 1..(Len(c) - 1) : mt.index[c[i + 1]].parent_id = c[i]

\* C40: when a summary is split at message b of its span, the contents handed
\* to generate_summary for the pre summary are in chronological order, from
\* the start of the summary down to b.
C40_PreContentsChronological ==
    (impl = Backend /\ AllReturned) =>
        \A b \in DOMAIN Trees.mt.index :
            LET w == PreContents(Trees.mt, Trees.st, b)
            IN  (/\ b \in Covered(Trees.mt, Trees.st)
                 /\ w.err = ""
                 /\ w.contents # <<>>) =>
                    /\ Chronological(Trees.mt, w.contents)
                    /\ Last(w.contents) = b

====
